---- MODULE Spec2Model ----
(***************************************************************************)
(* Model of the remote-job scraper: the deduplicating store client         *)
(* (utils/database.py), the LLM classifier (utils/ai_classifier.py) and    *)
(* the orchestration loops of main.py.                                     *)
(*                                                                         *)
(* A Python str is modelled as the sequence of its characters; a character *)
(* is a one-character string, a non-ASCII character is written "uXXXX"     *)
(* (its code point).  `chars` holds every string literal the model uses.   *)
(***************************************************************************)
EXTENDS Integers, Sequences, FiniteSets, TLC

chars ==
       (  ("u5168u6808" :> <<"u5168", "u6808">>)
        @@ ("fullstack" :> <<"f", "u", "l", "l", "s", "t", "a", "c", "k">>)
        @@ ("full-stack" :> <<"f", "u", "l", "l", "-", "s", "t", "a", "c", "k">>)
        @@ ("full stack" :> <<"f", "u", "l", "l", " ", "s", "t", "a", "c", "k">>)
        @@ ("u6d4bu8bd5" :> <<"u6d4b", "u8bd5">>)
        @@ ("qa" :> <<"q", "a">>)
        @@ ("test" :> <<"t", "e", "s", "t">>)
        @@ ("quality" :> <<"q", "u", "a", "l", "i", "t", "y">>)
        @@ ("sdet" :> <<"s", "d", "e", "t">>)
        @@ ("ai" :> <<"a", "i">>)
        @@ ("ml" :> <<"m", "l">>)
        @@ ("u7b97u6cd5" :> <<"u7b97", "u6cd5">>)
        @@ ("u673au5668u5b66u4e60" :> <<"u673a", "u5668", "u5b66", "u4e60">>)
        @@ ("machine learning" :> <<"m", "a", "c", "h", "i", "n", "e", " ", "l", "e", "a", "r", "n", "i", "n", "g">>)
        @@ ("deep learning" :> <<"d", "e", "e", "p", " ", "l", "e", "a", "r", "n", "i", "n", "g">>)
        @@ ("u6df1u5ea6u5b66u4e60" :> <<"u6df1", "u5ea6", "u5b66", "u4e60">>)
        @@ ("nlp" :> <<"n", "l", "p">>)
        @@ ("data scien" :> <<"d", "a", "t", "a", " ", "s", "c", "i", "e", "n">>))
    @@ (  ("u4ebau5de5u667au80fd" :> <<"u4eba", "u5de5", "u667a", "u80fd">>)
        @@ ("llm" :> <<"l", "l", "m">>)
        @@ ("gpt" :> <<"g", "p", "t">>)
        @@ ("u5927u6a21u578b" :> <<"u5927", "u6a21", "u578b">>)
        @@ ("android" :> <<"a", "n", "d", "r", "o", "i", "d">>)
        @@ ("ios" :> <<"i", "o", "s">>)
        @@ ("flutter" :> <<"f", "l", "u", "t", "t", "e", "r">>)
        @@ ("react native" :> <<"r", "e", "a", "c", "t", " ", "n", "a", "t", "i", "v", "e">>)
        @@ ("swift" :> <<"s", "w", "i", "f", "t">>)
        @@ ("kotlin" :> <<"k", "o", "t", "l", "i", "n">>)
        @@ ("u79fbu52a8" :> <<"u79fb", "u52a8">>)
        @@ ("mobile" :> <<"m", "o", "b", "i", "l", "e">>)
        @@ ("appu5f00u53d1" :> <<"a", "p", "p", "u5f00", "u53d1">>)
        @@ ("app u5f00u53d1" :> <<"a", "p", "p", " ", "u5f00", "u53d1">>)
        @@ ("u5b89u5353" :> <<"u5b89", "u5353">>)
        @@ ("u9e3fu8499" :> <<"u9e3f", "u8499">>)
        @@ ("harmonyos" :> <<"h", "a", "r", "m", "o", "n", "y", "o", "s">>)
        @@ ("u540eu7aef" :> <<"u540e", "u7aef">>))
    @@ (  ("backend" :> <<"b", "a", "c", "k", "e", "n", "d">>)
        @@ ("server" :> <<"s", "e", "r", "v", "e", "r">>)
        @@ ("u670du52a1u7aef" :> <<"u670d", "u52a1", "u7aef">>)
        @@ ("java" :> <<"j", "a", "v", "a">>)
        @@ ("python" :> <<"p", "y", "t", "h", "o", "n">>)
        @@ ("golang" :> <<"g", "o", "l", "a", "n", "g">>)
        @@ ("go " :> <<"g", "o", " ">>)
        @@ ("node" :> <<"n", "o", "d", "e">>)
        @@ ("php" :> <<"p", "h", "p">>)
        @@ ("ruby" :> <<"r", "u", "b", "y">>)
        @@ ("rust" :> <<"r", "u", "s", "t">>)
        @@ ("c++" :> <<"c", "+", "+">>)
        @@ ("u524du7aef" :> <<"u524d", "u7aef">>)
        @@ ("frontend" :> <<"f", "r", "o", "n", "t", "e", "n", "d">>)
        @@ ("front-end" :> <<"f", "r", "o", "n", "t", "-", "e", "n", "d">>)
        @@ ("react" :> <<"r", "e", "a", "c", "t">>)
        @@ ("vue" :> <<"v", "u", "e">>)
        @@ ("angular" :> <<"a", "n", "g", "u", "l", "a", "r">>))
    @@ (  ("css" :> <<"c", "s", "s">>)
        @@ ("unity" :> <<"u", "n", "i", "t", "y">>)
        @@ ("unreal" :> <<"u", "n", "r", "e", "a", "l">>)
        @@ ("cocos" :> <<"c", "o", "c", "o", "s">>)
        @@ ("u6e38u620f" :> <<"u6e38", "u620f">>)
        @@ ("game" :> <<"g", "a", "m", "e">>)
        @@ ("u3d" :> <<"u", "3", "d">>)
        @@ ("ue4" :> <<"u", "e", "4">>)
        @@ ("ue5" :> <<"u", "e", "5">>)
        @@ ("godot" :> <<"g", "o", "d", "o", "t">>)
        @@ ("cryengine" :> <<"c", "r", "y", "e", "n", "g", "i", "n", "e">>)
        @@ ("mmorpg" :> <<"m", "m", "o", "r", "p", "g">>)
        @@ ("rpg" :> <<"r", "p", "g">>)
        @@ ("u670du52a1u5668" :> <<"u670d", "u52a1", "u5668">>)
        @@ ("web" :> <<"w", "e", "b">>)
        @@ ("u533au5757u94fe" :> <<"u533a", "u5757", "u94fe">>)
        @@ ("blockchain" :> <<"b", "l", "o", "c", "k", "c", "h", "a", "i", "n">>)
        @@ ("web3" :> <<"w", "e", "b", "3">>))
    @@ (  ("solidity" :> <<"s", "o", "l", "i", "d", "i", "t", "y">>)
        @@ ("u667au80fdu5408u7ea6" :> <<"u667a", "u80fd", "u5408", "u7ea6">>)
        @@ ("smart contract" :> <<"s", "m", "a", "r", "t", " ", "c", "o", "n", "t", "r", "a", "c", "t">>)
        @@ ("crypto" :> <<"c", "r", "y", "p", "t", "o">>)
        @@ ("defi" :> <<"d", "e", "f", "i">>)
        @@ ("nft" :> <<"n", "f", "t">>)
        @@ ("dex" :> <<"d", "e", "x">>)
        @@ ("cex" :> <<"c", "e", "x">>)
        @@ ("u4ea4u6613u6240" :> <<"u4ea4", "u6613", "u6240">>)
        @@ ("solana" :> <<"s", "o", "l", "a", "n", "a">>)
        @@ ("ethereum" :> <<"e", "t", "h", "e", "r", "e", "u", "m">>)
        @@ ("eth" :> <<"e", "t", "h">>)
        @@ ("token" :> <<"t", "o", "k", "e", "n">>)
        @@ ("customer success" :> <<"c", "u", "s", "t", "o", "m", "e", "r", " ", "s", "u", "c", "c", "e", "s", "s">>)
        @@ ("sales engineer" :> <<"s", "a", "l", "e", "s", " ", "e", "n", "g", "i", "n", "e", "e", "r">>)
        @@ ("solutions engineer" :> <<"s", "o", "l", "u", "t", "i", "o", "n", "s", " ", "e", "n", "g", "i", "n", "e", "e", "r">>)
        @@ ("account manager" :> <<"a", "c", "c", "o", "u", "n", "t", " ", "m", "a", "n", "a", "g", "e", "r">>)
        @@ ("account executive" :> <<"a", "c", "c", "o", "u", "n", "t", " ", "e", "x", "e", "c", "u", "t", "i", "v", "e">>))
    @@ (  ("business development" :> <<"b", "u", "s", "i", "n", "e", "s", "s", " ", "d", "e", "v", "e", "l", "o", "p", "m", "e", "n", "t">>)
        @@ ("devops" :> <<"d", "e", "v", "o", "p", "s">>)
        @@ ("quant" :> <<"q", "u", "a", "n", "t">>)
        @@ ("security" :> <<"s", "e", "c", "u", "r", "i", "t", "y">>)
        @@ ("testing" :> <<"t", "e", "s", "t", "i", "n", "g">>)
        @@ ("data" :> <<"d", "a", "t", "a">>)
        @@ ("embedded" :> <<"e", "m", "b", "e", "d", "d", "e", "d">>)
        @@ ("other" :> <<"o", "t", "h", "e", "r">>)
        @@ ("</think>" :> <<"<", "/", "t", "h", "i", "n", "k", ">">>)
        @@ ("JOB" :> <<"J", "O", "B">>)
        @@ ("," :> <<",">>)
        @@ ("u9ad8u7ea7" :> <<"u9ad8", "u7ea7">>)
        @@ ("u8d44u6df1" :> <<"u8d44", "u6df1">>)
        @@ ("senior" :> <<"s", "e", "n", "i", "o", "r">>)
        @@ ("junior" :> <<"j", "u", "n", "i", "o", "r">>)
        @@ ("u521du7ea7" :> <<"u521d", "u7ea7">>)
        @@ ("Senior Backend Engineer (API)" :> <<"S", "e", "n", "i", "o", "r", " ", "B", "a", "c", "k", "e", "n", "d", " ", "E", "n", "g", "i", "n", "e", "e", "r", " ", "(", "A", "P", "I", ")">>)
        @@ ("iOS Developer" :> <<"i", "O", "S", " ", "D", "e", "v", "e", "l", "o", "p", "e", "r">>))
    @@ (  ("Unity Game Developer" :> <<"U", "n", "i", "t", "y", " ", "G", "a", "m", "e", " ", "D", "e", "v", "e", "l", "o", "p", "e", "r">>)
        @@ ("Customer Success Engineer" :> <<"C", "u", "s", "t", "o", "m", "e", "r", " ", "S", "u", "c", "c", "e", "s", "s", " ", "E", "n", "g", "i", "n", "e", "e", "r">>)
        @@ ("u5168u6808AIu5de5u7a0bu5e08" :> <<"u5168", "u6808", "A", "I", "u5de5", "u7a0b", "u5e08">>)
        @@ ("Web3 QA Engineer" :> <<"W", "e", "b", "3", " ", "Q", "A", " ", "E", "n", "g", "i", "n", "e", "e", "r">>)
        @@ ("Flutter React Developer" :> <<"F", "l", "u", "t", "t", "e", "r", " ", "R", "e", "a", "c", "t", " ", "D", "e", "v", "e", "l", "o", "p", "e", "r">>)
        @@ ("DevOps Engineer" :> <<"D", "e", "v", "O", "p", "s", " ", "E", "n", "g", "i", "n", "e", "e", "r">>)
        @@ ("frontend,backend" :> <<"f", "r", "o", "n", "t", "e", "n", "d", ",", "b", "a", "c", "k", "e", "n", "d">>)
        @@ ("other,other" :> <<"o", "t", "h", "e", "r", ",", "o", "t", "h", "e", "r">>)
        @@ ("Fullstack, AI" :> <<"F", "u", "l", "l", "s", "t", "a", "c", "k", ",", " ", "A", "I">>)
        @@ ("" :> <<>>)
        @@ ("foo,bar" :> <<"f", "o", "o", ",", "b", "a", "r">>)
        @@ ("mobile,mobile" :> <<"m", "o", "b", "i", "l", "e", ",", "m", "o", "b", "i", "l", "e">>)
        @@ ("frontend,backend,devops,data" :> <<"f", "r", "o", "n", "t", "e", "n", "d", ",", "b", "a", "c", "k", "e", "n", "d", ",", "d", "e", "v", "o", "p", "s", ",", "d", "a", "t", "a">>)
        @@ ("testing,blockchain,other" :> <<"t", "e", "s", "t", "i", "n", "g", ",", "b", "l", "o", "c", "k", "c", "h", "a", "i", "n", ",", "o", "t", "h", "e", "r">>)
        @@ ("<think>hmm</think>game" :> <<"<", "t", "h", "i", "n", "k", ">", "h", "m", "m", "<", "/", "t", "h", "i", "n", "k", ">", "g", "a", "m", "e">>)
        @@ ("JOB_AD" :> <<"J", "O", "B", "_", "A", "D">>)
        @@ ("OTHER" :> <<"O", "T", "H", "E", "R">>)
        @@ (" job_ad\n" :> <<" ", "j", "o", "b", "_", "a", "d", "\n">>))
    @@ (  ("Senior Rust Backend Dev" :> <<"S", "e", "n", "i", "o", "r", " ", "R", "u", "s", "t", " ", "B", "a", "c", "k", "e", "n", "d", " ", "D", "e", "v">>)
        @@ ("[Remote] rust backend dev" :> <<"[", "R", "e", "m", "o", "t", "e", "]", " ", "r", "u", "s", "t", " ", "b", "a", "c", "k", "e", "n", "d", " ", "d", "e", "v">>)
        @@ ("Rust Backend Dev" :> <<"R", "u", "s", "t", " ", "B", "a", "c", "k", "e", "n", "d", " ", "D", "e", "v">>)
        @@ ("Rust backend devops" :> <<"R", "u", "s", "t", " ", "b", "a", "c", "k", "e", "n", "d", " ", "d", "e", "v", "o", "p", "s">>)
        @@ ("Rust backend dev help" :> <<"R", "u", "s", "t", " ", "b", "a", "c", "k", "e", "n", "d", " ", "d", "e", "v", " ", "h", "e", "l", "p">>)
        @@ ("Go dev" :> <<"G", "o", " ", "d", "e", "v">>)
        @@ ("Go devs" :> <<"G", "o", " ", "d", "e", "v", "s">>)
        @@ ("Remote, full time." :> <<"R", "e", "m", "o", "t", "e", ",", " ", "f", "u", "l", "l", " ", "t", "i", "m", "e", ".">>)
        @@ ("Part-time contract" :> <<"P", "a", "r", "t", "-", "t", "i", "m", "e", " ", "c", "o", "n", "t", "r", "a", "c", "t">>)
        @@ ("a" :> <<"a">>)
        @@ ("ab" :> <<"a", "b">>)
        @@ ("bc" :> <<"b", "c">>)
        @@ ("c" :> <<"c">>)
        @@ ("senseniorior" :> <<"s", "e", "n", "s", "e", "n", "i", "o", "r", "i", "o", "r">>)
        @@ ("abc" :> <<"a", "b", "c">>)
        @@ ("architect" :> <<"a", "r", "c", "h", "i", "t", "e", "c", "t">>)
        @@ ("aws" :> <<"a", "w", "s">>)
        @@ ("back-end" :> <<"b", "a", "c", "k", "-", "e", "n", "d">>))
    @@ (  ("big data" :> <<"b", "i", "g", " ", "d", "a", "t", "a">>)
        @@ ("cloud" :> <<"c", "l", "o", "u", "d">>)
        @@ ("data science" :> <<"d", "a", "t", "a", " ", "s", "c", "i", "e", "n", "c", "e">>)
        @@ ("designer" :> <<"d", "e", "s", "i", "g", "n", "e", "r">>)
        @@ ("developer" :> <<"d", "e", "v", "e", "l", "o", "p", "e", "r">>)
        @@ ("engineer" :> <<"e", "n", "g", "i", "n", "e", "e", "r">>)
        @@ ("go" :> <<"g", "o">>)
        @@ ("infrastructure" :> <<"i", "n", "f", "r", "a", "s", "t", "r", "u", "c", "t", "u", "r", "e">>)
        @@ ("javascript" :> <<"j", "a", "v", "a", "s", "c", "r", "i", "p", "t">>)
        @@ ("kubernetes" :> <<"k", "u", "b", "e", "r", "n", "e", "t", "e", "s">>)
        @@ ("programmer" :> <<"p", "r", "o", "g", "r", "a", "m", "m", "e", "r">>)
        @@ ("sre" :> <<"s", "r", "e">>)
        @@ ("ui" :> <<"u", "i">>)
        @@ ("ux" :> <<"u", "x">>)
        @@ ("u4e2au4ebau7b80u4ecb" :> <<"u4e2a", "u4eba", "u7b80", "u4ecb">>)
        @@ ("u4e2au4ebau7b80u5386" :> <<"u4e2a", "u4eba", "u7b80", "u5386">>)
        @@ ("u4e30u5bccu7ecfu9a8c" :> <<"u4e30", "u5bcc", "u7ecf", "u9a8c">>)
        @@ ("u4ea7u54c1" :> <<"u4ea7", "u54c1">>))
    @@ (  ("u4ecbu7ecdu4e00u4e0bu81eau5df1" :> <<"u4ecb", "u7ecd", "u4e00", "u4e0b", "u81ea", "u5df1">>)
        @@ ("u4f5cu54c1" :> <<"u4f5c", "u54c1">>)
        @@ ("u5168u804cu8fdcu7a0bu6c42" :> <<"u5168", "u804c", "u8fdc", "u7a0b", "u6c42">>)
        @@ ("u5173u4e8e" :> <<"u5173", "u4e8e">>)
        @@ ("u5206u4eab" :> <<"u5206", "u4eab">>)
        @@ ("u521du8877" :> <<"u521d", "u8877">>)
        @@ ("u54a8u8be2" :> <<"u54a8", "u8be2">>)
        @@ ("u56deu9988" :> <<"u56de", "u9988">>)
        @@ ("u591au5e74u7ecfu9a8c" :> <<"u591a", "u5e74", "u7ecf", "u9a8c">>)
        @@ ("u5927u5382" :> <<"u5927", "u5382">>)
        @@ ("u5982u4f55" :> <<"u5982", "u4f55">>)
        @@ ("u5982u864eu6dfbu7ffc" :> <<"u5982", "u864e", "u6dfb", "u7ffc">>)
        @@ ("u5bfbu627eu4f19u4f34" :> <<"u5bfb", "u627e", "u4f19", "u4f34">>)
        @@ ("u5bfbu627eu673au4f1a" :> <<"u5bfb", "u627e", "u673a", "u4f1a">>)
        @@ ("u5bfbu627eu957fu671fu65b9u5411" :> <<"u5bfb", "u627e", "u957f", "u671f", "u65b9", "u5411">>)
        @@ ("u5bfbu6c42" :> <<"u5bfb", "u6c42">>)
        @@ ("u5de5u7a0bu5e08" :> <<"u5de5", "u7a0b", "u5e08">>)
        @@ ("u5efau8bae" :> <<"u5efa", "u8bae">>))
    @@ (  ("u5f00u53d1" :> <<"u5f00", "u53d1">>)
        @@ ("u5f00u6e90u4e86" :> <<"u5f00", "u6e90", "u4e86">>)
        @@ ("u5fc3u5f97" :> <<"u5fc3", "u5f97">>)
        @@ ("u601du8003" :> <<"u601d", "u8003">>)
        @@ ("u611fu609f" :> <<"u611f", "u609f">>)
        @@ ("u6211u5f00u53d1u7684" :> <<"u6211", "u5f00", "u53d1", "u7684">>)
        @@ ("u6211u662f" :> <<"u6211", "u662f">>)
        @@ ("u6211u7684u7ecfu5386" :> <<"u6211", "u7684", "u7ecf", "u5386">>)
        @@ ("u627eu5de5u4f5c" :> <<"u627e", "u5de5", "u4f5c">>)
        @@ ("u6280u672fu6808:" :> <<"u6280", "u672f", "u6808", ":">>)
        @@ ("u62bdu5956" :> <<"u62bd", "u5956">>)
        @@ ("u62dbu4eba" :> <<"u62db", "u4eba">>)
        @@ ("u62dbu8058" :> <<"u62db", "u8058">>)
        @@ ("u63a2u7d22" :> <<"u63a2", "u7d22">>)
        @@ ("u63a2u8ba8" :> <<"u63a2", "u8ba8">>)
        @@ ("u6545u4e8b" :> <<"u6545", "u4e8b">>)
        @@ ("u6559u7a0b" :> <<"u6559", "u7a0b">>)
        @@ ("u6570u636e" :> <<"u6570", "u636e">>))
    @@ (  ("u66ddu5149" :> <<"u66dd", "u5149">>)
        @@ ("u672cu4eba" :> <<"u672c", "u4eba">>)
        @@ ("u6c42u5173u6ce8" :> <<"u6c42", "u5173", "u6ce8">>)
        @@ ("u6c42u52a9" :> <<"u6c42", "u52a9">>)
        @@ ("u6c42u5e26" :> <<"u6c42", "u5e26">>)
        @@ ("u6c42u6307u70b9" :> <<"u6c42", "u6307", "u70b9">>)
        @@ ("u6c42u63a8u8350" :> <<"u6c42", "u63a8", "u8350">>)
        @@ ("u6c42u804c" :> <<"u6c42", "u804c">>)
        @@ ("u72b6u6001u662f" :> <<"u72b6", "u6001", "u662f">>)
        @@ ("u76eeu524du5728" :> <<"u76ee", "u524d", "u5728">>)
        @@ ("u76eeu524du662f" :> <<"u76ee", "u524d", "u662f">>)
        @@ ("u770bu6cd5" :> <<"u770b", "u6cd5">>)
        @@ ("u79fbu52a8u7aef" :> <<"u79fb", "u52a8", "u7aef">>)
        @@ ("u7a81u56f4" :> <<"u7a81", "u56f4">>)
        @@ ("u7b2cu4e00u6b3e" :> <<"u7b2c", "u4e00", "u6b3e">>)
        @@ ("u8001u5175" :> <<"u8001", "u5175">>)
        @@ ("u80ccu666f" :> <<"u80cc", "u666f">>)
        @@ ("u81eau6211u4ecbu7ecd" :> <<"u81ea", "u6211", "u4ecb", "u7ecd">>))
    @@ (  ("u81eau7531u804cu4e1a" :> <<"u81ea", "u7531", "u804c", "u4e1a">>)
        @@ ("u8ba8u8bba" :> <<"u8ba8", "u8bba">>)
        @@ ("u8bbeu8ba1" :> <<"u8bbe", "u8ba1">>)
        @@ ("u8bc4u4ef7" :> <<"u8bc4", "u4ef7">>)
        @@ ("u8bdau62db" :> <<"u8bda", "u62db">>)
        @@ ("u8c03u67e5" :> <<"u8c03", "u67e5">>)
        @@ ("u8c08u8c08" :> <<"u8c08", "u8c08">>)
        @@ ("u8f6cu884c" :> <<"u8f6c", "u884c">>)
        @@ ("u8fd0u7ef4" :> <<"u8fd0", "u7ef4">>)
        @@ ("u95eeu5377" :> <<"u95ee", "u5377">>)
        @@ ("u9632u9a97" :> <<"u9632", "u9a97">>)
        @@ ("u9879u76eeu5c55u793a" :> <<"u9879", "u76ee", "u5c55", "u793a">>)
        @@ ("u9879u76eeu7ecfu9a8c" :> <<"u9879", "u76ee", "u7ecf", "u9a8c">>)
        @@ ("u62dbu8058 React u5f00u53d1uff0cu65f6u85aa 200" :> <<"u62db", "u8058", " ", "R", "e", "a", "c", "t", " ", "u5f00", "u53d1", "uff0c", "u65f6", "u85aa", " ", "2", "0", "0">>)
        @@ ("5u5e74Javau6c42u804cu8fdcu7a0b" :> <<"5", "u5e74", "J", "a", "v", "a", "u6c42", "u804c", "u8fdc", "u7a0b">>)
        @@ ("Java u6c42u804cu8fdcu7a0b" :> <<"J", "a", "v", "a", " ", "u6c42", "u804c", "u8fdc", "u7a0b">>)
        @@ ("u6211u505au4e86u4e2a Python u5de5u5177" :> <<"u6211", "u505a", "u4e86", "u4e2a", " ", "P", "y", "t", "h", "o", "n", " ", "u5de5", "u5177">>)
        @@ ("u6211u53f8u62dbu8058u540eu7aefu5de5u7a0bu5e08" :> <<"u6211", "u53f8", "u62db", "u8058", "u540e", "u7aef", "u5de5", "u7a0b", "u5e08">>))
    @@ (  ("u5468u672bu7ebfu4e0bu805au4f1a" :> <<"u5468", "u672b", "u7ebf", "u4e0b", "u805a", "u4f1a">>)
        @@ ("Senior Rust Engineer" :> <<"S", "e", "n", "i", "o", "r", " ", "R", "u", "s", "t", " ", "E", "n", "g", "i", "n", "e", "e", "r">>)
        @@ ("3 years exp: Go dev" :> <<"3", " ", "y", "e", "a", "r", "s", " ", "e", "x", "p", ":", " ", "G", "o", " ", "d", "e", "v">>)
        @@ ("u62dbu8058u4ea7u54c1u7ecfu7406" :> <<"u62db", "u8058", "u4ea7", "u54c1", "u7ecf", "u7406">>)
        @@ ("u8fdcu7a0buff0cu5f85u9047u9762u8bae" :> <<"u8fdc", "u7a0b", "uff0c", "u5f85", "u9047", "u9762", "u8bae">>)
        @@ ("u6c42u804cuff1au719fu6089 Java" :> <<"u6c42", "u804c", "uff1a", "u719f", "u6089", " ", "J", "a", "v", "a">>)
        @@ ("We need a golang engineer" :> <<"W", "e", " ", "n", "e", "e", "d", " ", "a", " ", "g", "o", "l", "a", "n", "g", " ", "e", "n", "g", "i", "n", "e", "e", "r">>)
        @@ ("u6211" :> <<"u6211">>)
        @@ (" " :> <<" ">>)
        @@ ("" :> <<>>)
        @@ ("design" :> <<"d", "e", "s", "i", "g", "n">>)
        @@ ("marketing" :> <<"m", "a", "r", "k", "e", "t", "i", "n", "g">>)
        @@ ("dev" :> <<"d", "e", "v">>)
        @@ ("Machine Learning" :> <<"M", "a", "c", "h", "i", "n", "e", " ", "L", "e", "a", "r", "n", "i", "n", "g">>)
        @@ ("writer" :> <<"w", "r", "i", "t", "e", "r">>)
        @@ ("unknown" :> <<"u", "n", "k", "n", "o", "w", "n">>)
        @@ ("CN" :> <<"C", "N">>)
        @@ ("eleduck" :> <<"e", "l", "e", "d", "u", "c", "k">>))
    @@ (  ("APAC" :> <<"A", "P", "A", "C">>)
        @@ ("EU" :> <<"E", "U">>)
        @@ ("US" :> <<"U", "S">>)
        @@ ("UTC" :> <<"U", "T", "C">>)
        @@ ("UTC+1" :> <<"U", "T", "C", "+", "1">>)
        @@ ("UTC+8" :> <<"U", "T", "C", "+", "8">>)
        @@ ("UTC-5" :> <<"U", "T", "C", "-", "5">>)
        @@ ("UTC-8" :> <<"U", "T", "C", "-", "8">>)
        @@ ("america" :> <<"a", "m", "e", "r", "i", "c", "a">>)
        @@ ("anywhere" :> <<"a", "n", "y", "w", "h", "e", "r", "e">>)
        @@ ("apac" :> <<"a", "p", "a", "c">>)
        @@ ("asia" :> <<"a", "s", "i", "a">>)
        @@ ("asia-pacific" :> <<"a", "s", "i", "a", "-", "p", "a", "c", "i", "f", "i", "c">>)
        @@ ("australia" :> <<"a", "u", "s", "t", "r", "a", "l", "i", "a">>)
        @@ ("based" :> <<"b", "a", "s", "e", "d">>)
        @@ ("central european" :> <<"c", "e", "n", "t", "r", "a", "l", " ", "e", "u", "r", "o", "p", "e", "a", "n">>)
        @@ ("cet" :> <<"c", "e", "t">>)
        @@ ("china" :> <<"c", "h", "i", "n", "a">>))
    @@ (  ("eastern" :> <<"e", "a", "s", "t", "e", "r", "n">>)
        @@ ("emea" :> <<"e", "m", "e", "a">>)
        @@ ("est" :> <<"e", "s", "t">>)
        @@ ("eu" :> <<"e", "u">>)
        @@ ("eu only" :> <<"e", "u", " ", "o", "n", "l", "y">>)
        @@ ("europe" :> <<"e", "u", "r", "o", "p", "e">>)
        @@ ("european" :> <<"e", "u", "r", "o", "p", "e", "a", "n">>)
        @@ ("global" :> <<"g", "l", "o", "b", "a", "l">>)
        @@ ("gmt" :> <<"g", "m", "t">>)
        @@ ("latam" :> <<"l", "a", "t", "a", "m">>)
        @@ ("only" :> <<"o", "n", "l", "y">>)
        @@ ("pacific" :> <<"p", "a", "c", "i", "f", "i", "c">>)
        @@ ("pst" :> <<"p", "s", "t">>)
        @@ ("remote" :> <<"r", "e", "m", "o", "t", "e">>)
        @@ ("required" :> <<"r", "e", "q", "u", "i", "r", "e", "d">>)
        @@ ("resident" :> <<"r", "e", "s", "i", "d", "e", "n", "t">>)
        @@ ("s" :> <<"s">>)
        @@ ("states" :> <<"s", "t", "a", "t", "e", "s">>))
    @@ (  ("time" :> <<"t", "i", "m", "e">>)
        @@ ("u.s." :> <<"u", ".", "s", ".">>)
        @@ ("uk" :> <<"u", "k">>)
        @@ ("united" :> <<"u", "n", "i", "t", "e", "d">>)
        @@ ("united states" :> <<"u", "n", "i", "t", "e", "d", " ", "s", "t", "a", "t", "e", "s">>)
        @@ ("us" :> <<"u", "s">>)
        @@ ("us only" :> <<"u", "s", " ", "o", "n", "l", "y">>)
        @@ ("usa" :> <<"u", "s", "a">>)
        @@ ("utc" :> <<"u", "t", "c">>)
        @@ ("worldwide" :> <<"w", "o", "r", "l", "d", "w", "i", "d", "e">>)
        @@ ("u4e1cu516bu533a" :> <<"u4e1c", "u516b", "u533a">>)
        @@ ("u4e2du56fdu5730u533a" :> <<"u4e2d", "u56fd", "u5730", "u533a">>)
        @@ ("u4e9au592au5730u533a" :> <<"u4e9a", "u592a", "u5730", "u533a">>)
        @@ ("u4ec5u9650u4e2du56fd" :> <<"u4ec5", "u9650", "u4e2d", "u56fd">>)
        @@ ("u4ec5u9650u4e9au592a" :> <<"u4ec5", "u9650", "u4e9a", "u592a">>)
        @@ ("u4ec5u9650u56fdu5185" :> <<"u4ec5", "u9650", "u56fd", "u5185">>)
        @@ ("u4ec5u9650u6b27u6d32" :> <<"u4ec5", "u9650", "u6b27", "u6d32">>)
        @@ ("u4ec5u9650u7f8eu56fd" :> <<"u4ec5", "u9650", "u7f8e", "u56fd">>))
    @@ (  ("u5317u4eacu65f6u95f4" :> <<"u5317", "u4eac", "u65f6", "u95f4">>)
        @@ ("u56fdu5185u5730u533a" :> <<"u56fd", "u5185", "u5730", "u533a">>)
        @@ ("u5de5u4f5c" :> <<"u5de5", "u4f5c">>)
        @@ ("u5de5u4f5cu65f6u95f4" :> <<"u5de5", "u4f5c", "u65f6", "u95f4">>)
        @@ ("u65f6u533a" :> <<"u65f6", "u533a">>)
        @@ ("u6b27u6d32u5730u533a" :> <<"u6b27", "u6d32", "u5730", "u533a">>)
        @@ ("u7f8eu56fdu5730u533a" :> <<"u7f8e", "u56fd", "u5730", "u533a">>)
        @@ ("u914du5408" :> <<"u914d", "u5408">>)
        @@ ("u9650u4e2du56fdu5927u9646" :> <<"u9650", "u4e2d", "u56fd", "u5927", "u9646">>)
        @@ ("Remote backend, PST preferred" :> <<"R", "e", "m", "o", "t", "e", " ", "b", "a", "c", "k", "e", "n", "d", ",", " ", "P", "S", "T", " ", "p", "r", "e", "f", "e", "r", "r", "e", "d">>)
        @@ ("PST required" :> <<"P", "S", "T", " ", "r", "e", "q", "u", "i", "r", "e", "d">>)
        @@ ("EST u65f6u533a" :> <<"E", "S", "T", " ", "u65f6", "u533a">>)
        @@ ("pacific time  required" :> <<"p", "a", "c", "i", "f", "i", "c", " ", "t", "i", "m", "e", " ", " ", "r", "e", "q", "u", "i", "r", "e", "d">>)
        @@ ("US only, PST required" :> <<"U", "S", " ", "o", "n", "l", "y", ",", " ", "P", "S", "T", " ", "r", "e", "q", "u", "i", "r", "e", "d">>)
        @@ ("u9700u8981u914du5408 UTC+8 u5de5u4f5cu65f6u95f4" :> <<"u9700", "u8981", "u914d", "u5408", " ", "U", "T", "C", "+", "8", " ", "u5de5", "u4f5c", "u65f6", "u95f4">>)
        @@ ("GMT-5 required" :> <<"G", "M", "T", "-", "5", " ", "r", "e", "q", "u", "i", "r", "e", "d">>)
        @@ ("utc+10required" :> <<"u", "t", "c", "+", "1", "0", "r", "e", "q", "u", "i", "r", "e", "d">>)
        @@ ("u5317u4eacu65f6u95f4u5de5u4f5c" :> <<"u5317", "u4eac", "u65f6", "u95f4", "u5de5", "u4f5c">>))
    @@ (  ("Budapest required" :> <<"B", "u", "d", "a", "p", "e", "s", "t", " ", "r", "e", "q", "u", "i", "r", "e", "d">>)
        @@ ("Europe based, EU only" :> <<"E", "u", "r", "o", "p", "e", " ", "b", "a", "s", "e", "d", ",", " ", "E", "U", " ", "o", "n", "l", "y">>)
        @@ ("u4e9au592au5730u533a china only" :> <<"u4e9a", "u592a", "u5730", "u533a", " ", "c", "h", "i", "n", "a", " ", "o", "n", "l", "y">>)
        @@ ("asia-pacific only" :> <<"a", "s", "i", "a", "-", "p", "a", "c", "i", "f", "i", "c", " ", "o", "n", "l", "y">>)
        @@ ("us residents" :> <<"u", "s", " ", "r", "e", "s", "i", "d", "e", "n", "t", "s">>)
        @@ ("u4ec5us only" :> <<"u4ec5", "u", "s", " ", "o", "n", "l", "y">>)
        @@ ("CST" :> <<"C", "S", "T">>)
        @@ ("Eastern Time u5de5u4f5cu65f6u95f4" :> <<"E", "a", "s", "t", "e", "r", "n", " ", "T", "i", "m", "e", " ", "u5de5", "u4f5c", "u65f6", "u95f4">>)
        @@ ("UTC +8u914du5408, EST required" :> <<"U", "T", "C", " ", "+", "8", "u914d", "u5408", ",", " ", "E", "S", "T", " ", "r", "e", "q", "u", "i", "r", "e", "d">>)
        @@ ("Worldwide" :> <<"W", "o", "r", "l", "d", "w", "i", "d", "e">>)
        @@ ("PST" :> <<"P", "S", "T">>)
        @@ ("Pacific timezone" :> <<"P", "a", "c", "i", "f", "i", "c", " ", "t", "i", "m", "e", "z", "o", "n", "e">>)
        @@ ("EST" :> <<"E", "S", "T">>)
        @@ ("Budapest" :> <<"B", "u", "d", "a", "p", "e", "s", "t">>)
        @@ ("UTC+2" :> <<"U", "T", "C", "+", "2">>)
        @@ ("GMT -05" :> <<"G", "M", "T", " ", "-", "0", "5">>)
        @@ ("USA" :> <<"U", "S", "A">>)
        @@ ("London, UK" :> <<"L", "o", "n", "d", "o", "n", ",", " ", "U", "K">>))
    @@ (  ("Asia" :> <<"A", "s", "i", "a">>)
        @@ ("Apache Junction" :> <<"A", "p", "a", "c", "h", "e", " ", "J", "u", "n", "c", "t", "i", "o", "n">>)
        @@ ("CET" :> <<"C", "E", "T">>)
        @@ ("Remote (PST required)" :> <<"R", "e", "m", "o", "t", "e", " ", "(", "P", "S", "T", " ", "r", "e", "q", "u", "i", "r", "e", "d", ")">>)
        @@ ("Latam" :> <<"L", "a", "t", "a", "m">>)
        @@ ("Eastern Canada" :> <<"E", "a", "s", "t", "e", "r", "n", " ", "C", "a", "n", "a", "d", "a">>)
        @@ ("Asia-Pacific" :> <<"A", "s", "i", "a", "-", "P", "a", "c", "i", "f", "i", "c">>)
        @@ ("cst" :> <<"c", "s", "t">>)
        @@ ("pacific time" :> <<"p", "a", "c", "i", "f", "i", "c", " ", "t", "i", "m", "e">>)
        @@ ("eastern time" :> <<"e", "a", "s", "t", "e", "r", "n", " ", "t", "i", "m", "e">>)
        @@ ("EU only or US only" :> <<"E", "U", " ", "o", "n", "l", "y", " ", "o", "r", " ", "U", "S", " ", "o", "n", "l", "y">>)
        @@ ("china only, eu based" :> <<"c", "h", "i", "n", "a", " ", "o", "n", "l", "y", ",", " ", "e", "u", " ", "b", "a", "s", "e", "d">>)
        @@ ("apac only, china only" :> <<"a", "p", "a", "c", " ", "o", "n", "l", "y", ",", " ", "c", "h", "i", "n", "a", " ", "o", "n", "l", "y">>)
        @@ ("UTC+8 required, asia only" :> <<"U", "T", "C", "+", "8", " ", "r", "e", "q", "u", "i", "r", "e", "d", ",", " ", "a", "s", "i", "a", " ", "o", "n", "l", "y">>)
        @@ ("EST required, PST required" :> <<"E", "S", "T", " ", "r", "e", "q", "u", "i", "r", "e", "d", ",", " ", "P", "S", "T", " ", "r", "e", "q", "u", "i", "r", "e", "d">>)
        @@ ("u5317u4eacu65f6u95f4u5de5u4f5c, GMT-5 required" :> <<"u5317", "u4eac", "u65f6", "u95f4", "u5de5", "u4f5c", ",", " ", "G", "M", "T", "-", "5", " ", "r", "e", "q", "u", "i", "r", "e", "d">>)
        @@ ("DevOps / Security / Fullstack" :> <<"D", "e", "v", "O", "p", "s", " ", "/", " ", "S", "e", "c", "u", "r", "i", "t", "y", " ", "/", " ", "F", "u", "l", "l", "s", "t", "a", "c", "k">>)
        @@ ("Go u5de5u7a0bu5e08" :> <<"G", "o", " ", "u5de5", "u7a0b", "u5e08">>))
    @@ (  ("Java u540eu7aef + Unity u5f00u53d1" :> <<"J", "a", "v", "a", " ", "u540e", "u7aef", " ", "+", " ", "U", "n", "i", "t", "y", " ", "u5f00", "u53d1">>)
        @@ ("NLP u7b97u6cd5u5de5u7a0bu5e08 (docker)" :> <<"N", "L", "P", " ", "u7b97", "u6cd5", "u5de5", "u7a0b", "u5e08", " ", "(", "d", "o", "c", "k", "e", "r", ")">>)
        @@ ("React Native u524du7aef" :> <<"R", "e", "a", "c", "t", " ", "N", "a", "t", "i", "v", "e", " ", "u524d", "u7aef">>)
        @@ ("Rust server, flutter app" :> <<"R", "u", "s", "t", " ", "s", "e", "r", "v", "e", "r", ",", " ", "f", "l", "u", "t", "t", "e", "r", " ", "a", "p", "p">>)
        @@ ("data scientist" :> <<"d", "a", "t", "a", " ", "s", "c", "i", "e", "n", "t", "i", "s", "t">>)
        @@ ("django u5f00u53d1" :> <<"d", "j", "a", "n", "g", "o", " ", "u5f00", "u53d1">>)
        @@ ("docker" :> <<"d", "o", "c", "k", "e", "r">>)
        @@ ("game dev" :> <<"g", "a", "m", "e", " ", "d", "e", "v">>)
        @@ ("gou5f00u53d1" :> <<"g", "o", "u5f00", "u53d1">>)
        @@ ("iOS / Android" :> <<"i", "O", "S", " ", "/", " ", "A", "n", "d", "r", "o", "i", "d">>)
        @@ ("infosec" :> <<"i", "n", "f", "o", "s", "e", "c">>)
        @@ ("k8s" :> <<"k", "8", "s">>)
        @@ ("penetration" :> <<"p", "e", "n", "e", "t", "r", "a", "t", "i", "o", "n">>)
        @@ ("quantitative" :> <<"q", "u", "a", "n", "t", "i", "t", "a", "t", "i", "v", "e">>)
        @@ ("red team" :> <<"r", "e", "d", " ", "t", "e", "a", "m">>)
        @@ ("trading" :> <<"t", "r", "a", "d", "i", "n", "g">>)
        @@ ("web3 u91cfu5316 python" :> <<"w", "e", "b", "3", " ", "u91cf", "u5316", " ", "p", "y", "t", "h", "o", "n">>)
        @@ ("webu524du7aef" :> <<"w", "e", "b", "u524d", "u7aef">>))
    @@ (  ("u4e91u539fu751f" :> <<"u4e91", "u539f", "u751f">>)
        @@ ("u4ea7u54c1u7ecfu7406" :> <<"u4ea7", "u54c1", "u7ecf", "u7406">>)
        @@ ("u524du7aef/u540eu7aefu5f00u53d1" :> <<"u524d", "u7aef", "/", "u540e", "u7aef", "u5f00", "u53d1">>)
        @@ ("u5408u7ea6" :> <<"u5408", "u7ea6">>)
        @@ ("u540eu7aef/u524du7aef u5f00u53d1" :> <<"u540e", "u7aef", "/", "u524d", "u7aef", " ", "u5f00", "u53d1">>)
        @@ ("u5b89u5168" :> <<"u5b89", "u5168">>)
        @@ ("u6211u4eecu9700u8981 python u548c unity" :> <<"u6211", "u4eec", "u9700", "u8981", " ", "p", "y", "t", "h", "o", "n", " ", "u548c", " ", "u", "n", "i", "t", "y">>)
        @@ ("u62dbu8058u5de5u7a0bu5e08" :> <<"u62db", "u8058", "u5de5", "u7a0b", "u5e08">>)
        @@ ("u64aeu5408u4ea4u6613" :> <<"u64ae", "u5408", "u4ea4", "u6613">>)
        @@ ("u653bu9632" :> <<"u653b", "u9632">>)
        @@ ("u67b6u6784u5e08" :> <<"u67b6", "u6784", "u5e08">>)
        @@ ("u6e17u900f" :> <<"u6e17", "u900f">>)
        @@ ("u6e38u620fu5ba2u6237u7aef" :> <<"u6e38", "u620f", "u5ba2", "u6237", "u7aef">>)
        @@ ("u6e38u620fu5f15u64ce" :> <<"u6e38", "u620f", "u5f15", "u64ce">>)
        @@ ("u6f0fu6d1e" :> <<"u6f0f", "u6d1e">>)
        @@ ("u719fu6089 docker u4e0e webu524du7aef" :> <<"u719f", "u6089", " ", "d", "o", "c", "k", "e", "r", " ", "u4e0e", " ", "w", "e", "b", "u524d", "u7aef">>)
        @@ ("u79fbu52a8u5f00u53d1" :> <<"u79fb", "u52a8", "u5f00", "u53d1">>)
        @@ ("u7b97u6cd5u5de5u7a0bu5e08" :> <<"u7b97", "u6cd5", "u5de5", "u7a0b", "u5e08">>))
    @@ (  ("u8fd0u7ef4u5b89u5168u5de5u7a0bu5e08" :> <<"u8fd0", "u7ef4", "u5b89", "u5168", "u5de5", "u7a0b", "u5e08">>)
        @@ ("u8fdcu7a0b golang" :> <<"u8fdc", "u7a0b", " ", "g", "o", "l", "a", "n", "g">>)
        @@ ("u91cfu5316" :> <<"u91cf", "u5316">>)
        @@ ("u98ceu63a7u5f00u53d1" :> <<"u98ce", "u63a7", "u5f00", "u53d1">>)
        @@ ("Unity u5ba2u6237u7aef" :> <<"U", "n", "i", "t", "y", " ", "u5ba2", "u6237", "u7aef">>)
        @@ ("REMOTE" :> <<"R", "E", "M", "O", "T", "E">>)
        @@ ("Remote" :> <<"R", "e", "m", "o", "t", "e">>)
        @@ ("WFH" :> <<"W", "F", "H">>)
        @@ ("api" :> <<"a", "p", "i">>)
        @@ ("app" :> <<"a", "p", "p">>)
        @@ ("automation" :> <<"a", "u", "t", "o", "m", "a", "t", "i", "o", "n">>)
        @@ ("azure" :> <<"a", "z", "u", "r", "e">>)
        @@ ("c#" :> <<"c", "#">>)
        @@ ("code" :> <<"c", "o", "d", "e">>)
        @@ ("coding" :> <<"c", "o", "d", "i", "n", "g">>)
        @@ ("customer" :> <<"c", "u", "s", "t", "o", "m", "e", "r">>)
        @@ ("database" :> <<"d", "a", "t", "a", "b", "a", "s", "e">>)
        @@ ("figma" :> <<"f", "i", "g", "m", "a">>))
    @@ (  ("gcp" :> <<"g", "c", "p">>)
        @@ ("hr" :> <<"h", "r">>)
        @@ ("hrbp" :> <<"h", "r", "b", "p">>)
        @@ ("html" :> <<"h", "t", "m", "l">>)
        @@ ("intern" :> <<"i", "n", "t", "e", "r", "n">>)
        @@ ("internship" :> <<"i", "n", "t", "e", "r", "n", "s", "h", "i", "p">>)
        @@ ("microservice" :> <<"m", "i", "c", "r", "o", "s", "e", "r", "v", "i", "c", "e">>)
        @@ ("mongodb" :> <<"m", "o", "n", "g", "o", "d", "b">>)
        @@ ("mysql" :> <<"m", "y", "s", "q", "l">>)
        @@ ("postgresql" :> <<"p", "o", "s", "t", "g", "r", "e", "s", "q", "l">>)
        @@ ("pytorch" :> <<"p", "y", "t", "o", "r", "c", "h">>)
        @@ ("redis" :> <<"r", "e", "d", "i", "s">>)
        @@ ("sales" :> <<"s", "a", "l", "e", "s">>)
        @@ ("seo" :> <<"s", "e", "o">>)
        @@ ("sketch" :> <<"s", "k", "e", "t", "c", "h">>)
        @@ ("software" :> <<"s", "o", "f", "t", "w", "a", "r", "e">>)
        @@ ("sql" :> <<"s", "q", "l">>)
        @@ ("tech" :> <<"t", "e", "c", "h">>))
    @@ (  ("tensorflow" :> <<"t", "e", "n", "s", "o", "r", "f", "l", "o", "w">>)
        @@ ("typescript" :> <<"t", "y", "p", "e", "s", "c", "r", "i", "p", "t">>)
        @@ ("work from home" :> <<"w", "o", "r", "k", " ", "f", "r", "o", "m", " ", "h", "o", "m", "e">>)
        @@ ("u4e91" :> <<"u4e91">>)
        @@ ("u4ea4u4e92u8bbeu8ba1" :> <<"u4ea4", "u4e92", "u8bbe", "u8ba1">>)
        @@ ("u4ebau4e8b" :> <<"u4eba", "u4e8b">>)
        @@ ("u5728u5bb6" :> <<"u5728", "u5bb6">>)
        @@ ("u5728u627e" :> <<"u5728", "u627e">>)
        @@ ("u5b9eu4e60" :> <<"u5b9e", "u4e60">>)
        @@ ("u5ba2u670d" :> <<"u5ba2", "u670d">>)
        @@ ("u5c45u5bb6" :> <<"u5c45", "u5bb6">>)
        @@ ("u5e02u573a" :> <<"u5e02", "u573a">>)
        @@ ("u60f3u627e" :> <<"u60f3", "u627e">>)
        @@ ("u627eu517cu804c" :> <<"u627e", "u517c", "u804c">>)
        @@ ("u627eu8fdcu7a0b" :> <<"u627e", "u8fdc", "u7a0b">>)
        @@ ("u6280u672f" :> <<"u6280", "u672f">>)
        @@ ("u63a5u5355" :> <<"u63a5", "u5355">>)
        @@ ("u63a5u6d3b" :> <<"u63a5", "u6d3b">>))
    @@ (  ("u63a5u79c1u6d3b" :> <<"u63a5", "u79c1", "u6d3b">>)
        @@ ("u6570u636eu5e93" :> <<"u6570", "u636e", "u5e93">>)
        @@ ("u67b6u6784" :> <<"u67b6", "u6784">>)
        @@ ("u6c42u517cu804c" :> <<"u6c42", "u517c", "u804c">>)
        @@ ("u7a0bu5e8fu5458" :> <<"u7a0b", "u5e8f", "u5458">>)
        @@ ("u89c6u89c9u8bbeu8ba1" :> <<"u89c6", "u89c9", "u8bbe", "u8ba1">>)
        @@ ("u8bbeu8ba1u5e08" :> <<"u8bbe", "u8ba1", "u5e08">>)
        @@ ("u8fd0u8425" :> <<"u8fd0", "u8425">>)
        @@ ("u8fdcu7a0b" :> <<"u8fdc", "u7a0b">>)
        @@ ("u9500u552e" :> <<"u9500", "u552e">>)
        @@ ("u96beu627e" :> <<"u96be", "u627e">>)
        @@ ("Golang engineer" :> <<"G", "o", "l", "a", "n", "g", " ", "e", "n", "g", "i", "n", "e", "e", "r">>)
        @@ ("WFH, US only" :> <<"W", "F", "H", ",", " ", "U", "S", " ", "o", "n", "l", "y">>)
        @@ ("[u8fdcu7a0b] Python u540eu7aefu5f00u53d1" :> <<"[", "u8fdc", "u7a0b", "]", " ", "P", "y", "t", "h", "o", "n", " ", "u540e", "u7aef", "u5f00", "u53d1">>)
        @@ ("[u8fdcu7a0b] Python u540eu7aefu5f00u53d1 (u66f4u65b0)" :> <<"[", "u8fdc", "u7a0b", "]", " ", "P", "y", "t", "h", "o", "n", " ", "u540e", "u7aef", "u5f00", "u53d1", " ", "(", "u66f4", "u65b0", ")">>)
        @@ ("u62dbu8058 UI u8bbeu8ba1u5e08" :> <<"u62db", "u8058", " ", "U", "I", " ", "u8bbe", "u8ba1", "u5e08">>)
        @@ ("u6c42u804cuff1au524du7aefu8fdcu7a0b" :> <<"u6c42", "u804c", "uff1a", "u524d", "u7aef", "u8fdc", "u7a0b">>)
        @@ ("u8fdcu7a0bu6280u672fu652fu6301" :> <<"u8fdc", "u7a0b", "u6280", "u672f", "u652f", "u6301">>))

\* Python's None where an id is expected (ids are positive)
None == -1

(***************************************************************************)
(* Python str operations                                                   *)
(***************************************************************************)
upper_to_lower ==
    [c \in {"A","B","C","D","E","F","G","H","I","J","K","L","M",
            "N","O","P","Q","R","S","T","U","V","W","X","Y","Z"} |->
       CASE c = "A" -> "a" [] c = "B" -> "b" [] c = "C" -> "c" [] c = "D" -> "d"
         [] c = "E" -> "e" [] c = "F" -> "f" [] c = "G" -> "g" [] c = "H" -> "h"
         [] c = "I" -> "i" [] c = "J" -> "j" [] c = "K" -> "k" [] c = "L" -> "l"
         [] c = "M" -> "m" [] c = "N" -> "n" [] c = "O" -> "o" [] c = "P" -> "p"
         [] c = "Q" -> "q" [] c = "R" -> "r" [] c = "S" -> "s" [] c = "T" -> "t"
         [] c = "U" -> "u" [] c = "V" -> "v" [] c = "W" -> "w" [] c = "X" -> "x"
         [] c = "Y" -> "y" [] c = "Z" -> "z"]

lower_to_upper ==
    [c \in {upper_to_lower[u] : u \in DOMAIN upper_to_lower} |->
       CHOOSE u \in DOMAIN upper_to_lower : upper_to_lower[u] = c]

\* str.lower()
lower(s) ==
    [i \in 1..Len(s) |-> IF s[i] \in DOMAIN upper_to_lower THEN upper_to_lower[s[i]] ELSE s[i]]

\* str.upper()
upper(s) ==
    [i \in 1..Len(s) |-> IF s[i] \in DOMAIN lower_to_upper THEN lower_to_upper[s[i]] ELSE s[i]]

\* `k in t` for two strings
contains(k, t) ==
    \E i \in 1..(Len(t) - Len(k) + 1) : SubSeq(t, i, i + Len(k) - 1) = k

\* any(k in t for k in kw)
any_in(kw, t) == \E i \in 1..Len(kw) : contains(chars[kw[i]], t)

\* the characters \s matches, which str.strip() removes as well
Whitespace == {" ", "\t", "\n", "\r", "u3000"}

RECURSIVE lstrip(_)
lstrip(s) == IF s # <<>> /\ Head(s) \in Whitespace THEN lstrip(Tail(s)) ELSE s

RECURSIVE rstrip(_)
rstrip(s) ==
    IF s # <<>> /\ s[Len(s)] \in Whitespace THEN rstrip(SubSeq(s, 1, Len(s) - 1)) ELSE s

\* str.strip()
strip(s) == rstrip(lstrip(s))

\* index of the first occurrence of sep in s at or after 1, 0 if none
find(sep, s) ==
    IF contains(sep, s)
    THEN CHOOSE i \in 1..(Len(s) - Len(sep) + 1) :
           /\ SubSeq(s, i, i + Len(sep) - 1) = sep
           /\ \A j \in 1..(i - 1) : SubSeq(s, j, j + Len(sep) - 1) # sep
    ELSE 0

\* str.split(sep): the list of the pieces between the occurrences of sep
RECURSIVE split(_, _)
split(s, sep) ==
    LET i == find(sep, s) IN
    IF i = 0 THEN <<s>>
    ELSE <<SubSeq(s, 1, i - 1)>> \o split(SubSeq(s, i + Len(sep), Len(s)), sep)

\* set(s)
set(s) == {s[i] : i \in 1..Len(s)}

(***************************************************************************)
(* utils/database.py: text normalisation, content hash, similarity         *)
(***************************************************************************)
Openers == {"u3010", "[", "uff08", "("}
Closers == {"u3011", "]", "uff09", ")"}
Punctuation ==
    Whitespace \cup {"-", "_", ",", "uff0c", "u3002", "u3001", "uff1a", ":", "uff1b", ";",
                     "uff01", "!", "uff1f", "?", "u00b7", "."}
Fillers == <<"u9ad8u7ea7", "u8d44u6df1", "senior", "junior", "u521du7ea7">>

\* re.sub of an opening bracket, .*?, a closing bracket (database.py:76): leftmost, non-overlapping, shortest matches;
\* `.` does not match a newline
RECURSIVE remove_bracketed(_)
remove_bracketed(s) ==
    IF s = <<>> THEN <<>>
    ELSE LET closes == {k \in 2..Len(s) :
                          /\ s[k] \in Closers
                          /\ \A j \in 2..(k - 1) : s[j] # "\n"}
         IN  IF Head(s) \in Openers /\ closes # {}
             THEN LET k == CHOOSE k \in closes : \A m \in closes : k <= m
                  IN  remove_bracketed(SubSeq(s, k + 1, Len(s)))
             ELSE <<Head(s)>> \o remove_bracketed(Tail(s))

\* re.sub of runs of whitespace and punctuation (database.py:78)
remove_punctuation(s) == SelectSeq(s, LAMBDA c : c \notin Punctuation)

\* re.sub of the filler words (database.py:80): one left-to-right pass
RECURSIVE remove_fillers(_)
remove_fillers(s) ==
    IF s = <<>> THEN <<>>
    ELSE LET hit == {i \in 1..Len(Fillers) :
                       /\ Len(chars[Fillers[i]]) <= Len(s)
                       /\ SubSeq(s, 1, Len(chars[Fillers[i]])) = chars[Fillers[i]]}
         IN  IF hit # {}
             THEN LET i == CHOOSE i \in hit : \A m \in hit : i <= m
                  IN  remove_fillers(SubSeq(s, Len(chars[Fillers[i]]) + 1, Len(s)))
             ELSE <<Head(s)>> \o remove_fillers(Tail(s))

\* the body of _normalize_text
normalize_steps(text) ==
    IF text = <<>> THEN <<>>
    ELSE remove_fillers(remove_punctuation(remove_bracketed(lower(text))))

\* normalize_steps of every string of `chars`, computed once
normalize_table == [s \in {chars[k] : k \in DOMAIN chars} |-> normalize_steps(s)]

_normalize_text(text) ==
    IF text \in DOMAIN normalize_table THEN normalize_table[text] ELSE normalize_steps(text)

\* the first n characters, s[:n]
prefix(s, n) == SubSeq(s, 1, IF Len(s) < n THEN Len(s) ELSE n)

DescHashLen == 200

\* hashlib.sha256(content.encode()).hexdigest() is taken to be injective: the
\* digest is represented by the content it is computed from
sha256(content) == content

_generate_hash(job_data) ==
    LET title == _normalize_text(chars[job_data.title])
        desc  == prefix(_normalize_text(chars[job_data.description]), DescHashLen)
    IN  sha256(title \o desc)

\* faulty variant: the share of the characters of s1 that s2 has
_similarity_of_first(s1, s2) ==
    IF s1 = <<>> \/ s2 = <<>> THEN [num |-> 0, den |-> 1]
    ELSE [num |-> Cardinality(set(s1) \cap set(s2)), den |-> Cardinality(set(s1))]

\* the float intersection / union is kept as the exact quotient num / den
_similarity(s1, s2) ==
    IF s1 = <<>> \/ s2 = <<>> THEN [num |-> 0, den |-> 1]
    ELSE LET intersection == Cardinality(set(s1) \cap set(s2))
             union        == Cardinality(set(s1) \cup set(s2))
         IN  IF union > 0 THEN [num |-> intersection, den |-> union]
             ELSE [num |-> 0, den |-> 1]

\* r > 0.8: for set sizes far below 2^52 the rounded quotient exceeds the double
\* 0.8 exactly when num / den > 4 / 5
gt_0_8(r) == 5 * r.num > 4 * r.den

(***************************************************************************)
(* utils/ai_classifier.py                                                  *)
(***************************************************************************)
CATEGORY_KEYS ==
    <<"frontend", "backend", "fullstack", "mobile", "game",
      "devops", "ai", "blockchain", "quant", "security",
      "testing", "data", "embedded", "other">>

fullstack_kw == <<"u5168u6808", "fullstack", "full-stack", "full stack">>
testing_kw == <<"u6d4bu8bd5", "qa", "test", "quality", "sdet">>
ai_kw ==
    <<"ai", "ml", "u7b97u6cd5", "u673au5668u5b66u4e60", "machine learning", "deep learning",
      "u6df1u5ea6u5b66u4e60", "nlp", "data scien", "u4ebau5de5u667au80fd", "llm", "gpt",
      "u5927u6a21u578b">>
mobile_kw ==
    <<"android", "ios", "flutter", "react native", "swift",
      "kotlin", "u79fbu52a8", "mobile", "appu5f00u53d1", "app u5f00u53d1",
      "u5b89u5353", "u9e3fu8499", "harmonyos">>
backend_kw ==
    <<"u540eu7aef", "backend", "server", "u670du52a1u7aef", "java", "python",
      "golang", "go ", "node", "php", "ruby", "rust", "c++">>
frontend_kw == <<"u524du7aef", "frontend", "front-end", "react", "vue", "angular", "css">>
game_kw ==
    <<"unity", "unreal", "cocos", "u6e38u620f", "game", "u3d", "ue4", "ue5",
      "godot", "cryengine", "mmorpg", "rpg">>
backend_kw_game == <<"u540eu7aef", "backend", "server", "u670du52a1u7aef", "u670du52a1u5668">>
frontend_kw_game == <<"u524du7aef", "frontend", "front-end", "web">>
blockchain_kw ==
    <<"u533au5757u94fe", "blockchain", "web3", "solidity", "u667au80fdu5408u7ea6",
      "smart contract", "crypto", "defi", "nft", "dex", "cex",
      "u4ea4u6613u6240", "solana", "ethereum", "eth", "token">>
non_dev_kw ==
    <<"customer success", "sales engineer", "solutions engineer",
      "account manager", "account executive", "business development">>

\* `c in categories`
has(categories, c) == \E i \in 1..Len(categories) : categories[i] = c

\* [c for c in categories if c != key]
without(categories, key) == SelectSeq(categories, LAMBDA c : c # key)

\* faulty variant: the key stays whatever the title holds
require_kw_keeps(categories, key, kw, t) == categories

\* `if key in categories and not any(k in t for k in kw)`: drop key
require_kw(categories, key, kw, t) ==
    IF has(categories, key) /\ ~any_in(kw, t) THEN without(categories, key) ELSE categories

\* faulty variant: the category forced in is not a key of the taxonomy
force_kw_unknown_key(categories, key, kw, be_kw, fe_kw, t) ==
    IF any_in(kw, t)
    THEN LET added == IF ~has(categories, key) THEN Append(categories, "unknown") ELSE categories
         IN  require_kw(require_kw(added, "backend", be_kw, t), "frontend", fe_kw, t)
    ELSE categories

\* the mobile and the game rule: force the category in, and drop backend / frontend
\* unless the title has a keyword of theirs
force_kw(categories, key, kw, be_kw, fe_kw, t) ==
    IF any_in(kw, t)
    THEN LET added == IF ~has(categories, key) THEN Append(categories, key) ELSE categories
         IN  require_kw(require_kw(added, "backend", be_kw, t), "frontend", fe_kw, t)
    ELSE categories

_enforce_category_rules(title, categories) ==
    LET t  == lower(title)
        c1 == require_kw(categories, "fullstack", fullstack_kw, t)
        c2 == require_kw(c1, "testing", testing_kw, t)
        c3 == require_kw(c2, "ai", ai_kw, t)
        c4 == force_kw(c3, "mobile", mobile_kw, backend_kw, frontend_kw, t)
        c5 == force_kw(c4, "game", game_kw, backend_kw_game, frontend_kw_game, t)
        c6 == require_kw(c5, "blockchain", blockchain_kw, t)
        c7 == IF any_in(non_dev_kw, t) THEN <<"other">> ELSE c6
    IN  IF c7 = <<>> THEN <<"other">> ELSE c7

\* What the HTTP POST to the model service does: it raises (no connection, timeout),
\* or answers with a status and a body.  A body is not JSON, JSON without the answer
\* field, JSON whose answer field is null, or JSON carrying the answer text.
Answers ==
    {"backend", "frontend,backend", "other,other", "Fullstack, AI", "", "foo,bar",
     "mobile,mobile", "frontend,backend,devops,data", "testing,blockchain,other",
     "<think>hmm</think>game", "JOB_AD", "OTHER", " job_ad\n"}
HttpOutcomes ==
    {[kind |-> k, status |-> 0, shape |-> "none", text |-> ""] : k \in {"ConnectError", "Timeout"}}
    \cup {[kind |-> "response", status |-> s, shape |-> "not_json", text |-> ""] : s \in {429, 500}}
    \cup {[kind |-> "response", status |-> 200, shape |-> sh, text |-> ""] :
            sh \in {"not_json", "no_field", "null"}}
    \cup {[kind |-> "response", status |-> 200, shape |-> "text", text |-> a] : a \in Answers}

Raise == [raised |-> TRUE, value |-> <<>>]
Return(v) == [raised |-> FALSE, value |-> v]

_call_llm(backend, http) ==
    IF http.kind # "response" THEN Raise
    ELSE IF http.status # 200 THEN Raise
    ELSE IF http.shape = "not_json" THEN Raise
    ELSE IF backend = "openrouter"
    THEN IF http.shape # "text" THEN Raise
         ELSE LET content == strip(chars[http.text])
              IN  IF contains(chars["</think>"], content)
                  THEN LET parts == split(content, chars["</think>"])
                       IN  Return(strip(parts[Len(parts)]))
                  ELSE Return(content)
    ELSE IF http.shape = "null" THEN Raise
         ELSE IF http.shape = "no_field" THEN Return(strip(<<>>))
         ELSE Return(strip(chars[http.text]))

is_job_posting(title, backend, http) ==
    LET answer == _call_llm(backend, http)
    IN  IF answer.raised THEN TRUE
        ELSE contains(chars["JOB"], upper(answer.value))

\* [k for k in raw_keys if k in CATEGORY_KEYS], the kept keys by name
valid_keys(raw_keys) ==
    LET key_of(r) == CHOOSE i \in 1..Len(CATEGORY_KEYS) : chars[CATEGORY_KEYS[i]] = r
        is_key(r) == \E i \in 1..Len(CATEGORY_KEYS) : chars[CATEGORY_KEYS[i]] = r
        kept      == SelectSeq(raw_keys, is_key)
    IN  [i \in 1..Len(kept) |-> CATEGORY_KEYS[key_of(kept[i])]]

\* faulty variant: on a failed model call the correction rules are still applied
classify_category_rules_on_failure(title, backend, http) ==
    LET answer == _call_llm(backend, http)
    IN  IF answer.raised
        THEN LET enforced == _enforce_category_rules(title, <<"other">>)
             IN  IF Len(enforced) > 1 /\ has(enforced, "other")
                 THEN without(enforced, "other") ELSE enforced
        ELSE LET pieces     == split(lower(answer.value), chars[","])
                 raw_keys   == [i \in 1..Len(pieces) |-> strip(pieces[i])]
                 categories == IF valid_keys(raw_keys) = <<>> THEN <<"other">>
                               ELSE valid_keys(raw_keys)
                 enforced   == _enforce_category_rules(title, categories)
             IN  IF Len(enforced) > 1 /\ has(enforced, "other")
                 THEN without(enforced, "other")
                 ELSE enforced

\* faulty variant: "other" is not dropped from a list that holds real categories
classify_category_keeps_other(title, backend, http) ==
    LET answer == _call_llm(backend, http)
    IN  IF answer.raised THEN <<"other">>
        ELSE LET pieces     == split(lower(answer.value), chars[","])
                 raw_keys   == [i \in 1..Len(pieces) |-> strip(pieces[i])]
                 categories == IF valid_keys(raw_keys) = <<>> THEN <<"other">>
                               ELSE valid_keys(raw_keys)
             IN  _enforce_category_rules(title, categories)

classify_category(title, backend, http) ==
    LET answer == _call_llm(backend, http)
    IN  IF answer.raised THEN <<"other">>
        ELSE LET pieces     == split(lower(answer.value), chars[","])
                 raw_keys   == [i \in 1..Len(pieces) |-> strip(pieces[i])]
                 categories == IF valid_keys(raw_keys) = <<>> THEN <<"other">>
                               ELSE valid_keys(raw_keys)
                 enforced   == _enforce_category_rules(title, categories)
             IN  IF Len(enforced) > 1 /\ has(enforced, "other")
                 THEN without(enforced, "other")
                 ELSE enforced

ClassifierTitles ==
    {"Senior Backend Engineer (API)", "iOS Developer", "Unity Game Developer",
     "Customer Success Engineer", "u5168u6808AIu5de5u7a0bu5e08", "Web3 QA Engineer",
     "Flutter React Developer", "DevOps Engineer"}
Backends == {"openrouter", "ollama"}

(***************************************************************************)
(* State                                                                   *)
(***************************************************************************)
VARIABLES
    jobs,         \* the committed rows of table jobs, in id order
    uncommitted,  \* per connection: the rows its open transaction has inserted
    txn,          \* per connection: "idle", "intrans" or "aborted" (psycopg2's status)
    next_id,      \* the next value of the id sequence
    now,          \* datetime.now(), in days
    last,         \* the last insert_job call of run_with_database and what it did
    run,          \* run_with_database: loop position and counters
    proc,         \* two concurrent pipeline runs: each one's place inside insert_job
    llm,          \* the last classifier call and what it returned
    scrape,       \* scrape_all: loop position, collected jobs, what each source did
    calc,         \* the last call of a pure function: its arguments and what it returned
    eleduck,      \* EleduckScraper.scrape: the posts of the page, the position, the jobs emitted
    v2ex,         \* V2EXScraper.scrape: the node and page, the jobs collected, the result
    reclassify    \* reclassify_all: the stored categories, the rows read, the position

vars ==
    <<jobs, uncommitted, txn, next_id, now, last, run, proc, llm, scrape, calc, eleduck, v2ex,
      reclassify>>

Clients == {1, 2}

WindowDays == 30
MinFuzzyLen == 10
TitleColLen == 255

(***************************************************************************)
(* Postings handed to insert_job (job_data); has_url is whether the dict   *)
(* has the key 'original_url'                                              *)
(***************************************************************************)
\* the ISO strings the postings carry as date_posted, and the day each one names
iso_days == ("2024-02-08T00:00:00Z" :> 38)

\* a value of job_data.get('date_posted'): a str, or None when the key is
\* missing or holds None
Str(s) == [type |-> "str", value |-> s]
NoneValue == [type |-> "NoneType", value |-> ""]

Posting(t, d, s) ==
    [title |-> t, description |-> d, source_site |-> s, has_url |-> TRUE,
     date_posted |-> Str("2024-02-08T00:00:00Z")]

Postings ==
    {Posting("Senior Rust Backend Dev", "Remote, full time.", "v2ex"),
     Posting("[Remote] rust backend dev", "Remote, full time.", "v2ex"),
     Posting("Rust Backend Dev", "Remote, full time.", "remoteok"),
     Posting("Rust backend devops", "Part-time contract", "v2ex"),
     Posting("Rust backend dev help", "Part-time contract", "v2ex"),
     Posting("Go dev", "Remote, full time.", "v2ex"),
     Posting("Go devs", "Part-time contract", "v2ex"),
     [Posting("Go devs", "Remote, full time.", "remoteok") EXCEPT !.has_url = FALSE],
     [Posting("Go dev", "Part-time contract", "remoteok") EXCEPT !.date_posted = NoneValue],
     [Posting("Go dev", "Part-time contract", "v2ex") EXCEPT !.date_posted = Str("yesterday")]}

(***************************************************************************)
(* utils/database.py: DatabaseClient.insert_job                            *)
(***************************************************************************)
\* the rows a statement of connection c reads (READ COMMITTED): every committed
\* row and the rows of its own open transaction
Visible(c) == jobs \o uncommitted[c]

\* faulty variant: the lookup compares the title column, not content_hash
hash_exists_title_column(table, content_hash) ==
    \E i \in 1..Len(table) : table[i].title = content_hash

\* SELECT id FROM jobs WHERE content_hash = %s; fetchone() is a row
hash_exists(table, content_hash) ==
    \E i \in 1..Len(table) : table[i].content_hash = content_hash

\* WHERE source_site = %s AND date_scraped > %s AND is_active = TRUE,
\* with cutoff_date = datetime.now() - timedelta(days=30)
recent_same_source(row, job_data, t) ==
    /\ row.source_site = job_data.source_site
    /\ row.date_scraped > t - WindowDays
    /\ row.is_active = TRUE

\* faulty variant: the stored title is compared as stored, not normalised
_is_similar_exists_raw_title(table, job_data, t) ==
    LET normalized_title == _normalize_text(chars[job_data.title])
    IN  IF Len(normalized_title) < MinFuzzyLen THEN FALSE
        ELSE \E i \in 1..Len(table) :
               /\ recent_same_source(table[i], job_data, t)
               /\ gt_0_8(_similarity(normalized_title, table[i].title))

\* faulty variant: no minimum length of the normalised title
_is_similar_exists_any_length(table, job_data, t) ==
    LET normalized_title == _normalize_text(chars[job_data.title])
    IN  \E i \in 1..Len(table) :
          /\ recent_same_source(table[i], job_data, t)
          /\ gt_0_8(_similarity(normalized_title, _normalize_text(table[i].title)))

_is_similar_exists(table, job_data, t) ==
    LET normalized_title == _normalize_text(chars[job_data.title])
    IN  IF Len(normalized_title) < MinFuzzyLen THEN FALSE
        ELSE \E i \in 1..Len(table) :
               /\ recent_same_source(table[i], job_data, t)
               /\ gt_0_8(_similarity(normalized_title, _normalize_text(table[i].title)))

\* date_posted as the INSERT gets it: a string is parsed, and is replaced by now
\* when datetime.fromisoformat raises; any other value is passed as it is
parse_date_posted(date_posted, t) ==
    IF date_posted.type # "str" THEN None
    ELSE IF date_posted.value \in DOMAIN iso_days THEN iso_days[date_posted.value]
    ELSE t

\* the row INSERT INTO jobs ... RETURNING id creates
new_row(id, job_data, content_hash, t) ==
    [id           |-> id,
     title        |-> prefix(chars[job_data.title], TitleColLen),
     source_site  |-> job_data.source_site,
     content_hash |-> content_hash,
     date_posted  |-> parse_date_posted(job_data.date_posted, t),
     date_scraped |-> t,
     is_active    |-> TRUE]

\* Where the database may fail a statement of one call: nowhere, or at one of the
\* three cursor.execute calls.  A failed statement leaves the connection's
\* transaction aborted; insert_job never rolls back, so every later execute on the
\* connection raises InFailedSqlTransaction.
DbErrors == {"none", "select_hash", "select_similar", "insert"}

\* the database error a call ran into, "none" when it met none
met(o, dberr) == IF o.reason = "DatabaseError" THEN dberr ELSE "none"

Outcome(result, raised, reason, status, rows, commit) ==
    [result |-> result, raised |-> raised, reason |-> reason,
     txn |-> status, rows |-> rows, commit |-> commit]

\* faulty variant: the INSERT is not committed before the id is returned
insert_without_commit(id, job_data, content_hash, t) ==
    Outcome(id, FALSE, "inserted", "intrans",
            <<new_row(id, job_data, content_hash, t)>>, FALSE)

\* cursor.execute(INSERT ...); self.conn.commit(); return self.cursor.fetchone()[0]
insert_and_commit(id, job_data, content_hash, t) ==
    Outcome(id, FALSE, "inserted", "idle",
            <<new_row(id, job_data, content_hash, t)>>, TRUE)

\* One call insert_job(job_data) on a connection whose transaction status is conn,
\* reading table, at time t, the id sequence standing at id.
insert_job(conn, table, id, t, job_data, dberr) ==
    LET content_hash == _generate_hash(job_data)
        fuzzy_runs   == Len(_normalize_text(chars[job_data.title])) >= MinFuzzyLen
    IN  IF conn = "aborted"
        THEN Outcome(None, TRUE, "InFailedSqlTransaction", "aborted", <<>>, FALSE)
        ELSE IF dberr = "select_hash"
        THEN Outcome(None, TRUE, "DatabaseError", "aborted", <<>>, FALSE)
        ELSE IF hash_exists(table, content_hash)
        THEN Outcome(None, FALSE, "hash", "intrans", <<>>, FALSE)
        ELSE IF fuzzy_runs /\ dberr = "select_similar"
        THEN Outcome(None, TRUE, "DatabaseError", "aborted", <<>>, FALSE)
        ELSE IF _is_similar_exists(table, job_data, t)
        THEN Outcome(None, FALSE, "similar", "intrans", <<>>, FALSE)
        ELSE IF ~job_data.has_url
        THEN Outcome(None, TRUE, "KeyError", "intrans", <<>>, FALSE)
        ELSE IF dberr = "insert"
        THEN Outcome(None, TRUE, "DatabaseError", "aborted", <<>>, FALSE)
        ELSE insert_and_commit(id, job_data, content_hash, t)

\* the effect of an outcome on connection c and on the table
Apply(c, o) ==
    /\ txn' = [txn EXCEPT ![c] = o.txn]
    /\ next_id' = next_id + Len(o.rows)
    /\ IF o.commit
       THEN /\ jobs' = jobs \o uncommitted[c] \o o.rows
            /\ uncommitted' = [uncommitted EXCEPT ![c] = <<>>]
       ELSE /\ jobs' = jobs
            /\ uncommitted' = [uncommitted EXCEPT ![c] = uncommitted[c] \o o.rows]

(***************************************************************************)
(* main.py: run_with_database, one pipeline run on connection 1            *)
(***************************************************************************)
MaxJobs == 2
MaxTicks == 1
Now0 == 40

NoCall ==
    [op |-> "none", job |-> Posting("", "", ""), at |-> 0, dberr |-> "none", before |-> <<>>,
     result |-> None, raised |-> FALSE, reason |-> "none"]

\* one iteration of `for job in jobs`: try: result = db.insert_job(job) ... except Exception
\* what an iteration does with the outcome o of its call of insert_job
run_result(o, job, dberr) ==
    /\ Apply(1, o)
    /\ last' = [op |-> "insert_job", job |-> job, at |-> now, dberr |-> met(o, dberr),
                before |-> Visible(1), result |-> o.result, raised |-> o.raised,
                reason |-> o.reason]
    /\ run' = [run EXCEPT !.n = run.n + 1,
                          !.inserted = IF ~o.raised /\ o.result \notin {None, 0}
                                       THEN run.inserted + 1 ELSE run.inserted,
                          !.rejected = IF ~o.raised /\ o.result = None
                                       THEN run.rejected + 1 ELSE run.rejected,
                          !.errored  = IF o.raised THEN run.errored + 1 ELSE run.errored]

\* one iteration of `for job in jobs`: try: result = db.insert_job(job) ... except Exception
run_loop(job, dberr) ==
    /\ run.phase = "loop"
    /\ run.n < MaxJobs
    /\ run_result(insert_job(txn[1], Visible(1), next_id, now, job, dberr), job, dberr)
    /\ UNCHANGED <<now, proc, llm, scrape, calc, eleduck, v2ex, reclassify>>

\* the list is exhausted: db.close() discards an open transaction, then the summary
run_close ==
    /\ run.phase = "loop"
    /\ run' = [run EXCEPT !.phase = "done",
                          !.skipped = run.n - run.inserted]
    /\ uncommitted' = [uncommitted EXCEPT ![1] = <<>>]
    /\ txn' = [txn EXCEPT ![1] = "closed"]
    /\ UNCHANGED <<jobs, next_id, now, last, proc, llm, scrape, calc, eleduck, v2ex, reclassify>>

RunStep == \E job \in Postings, dberr \in DbErrors : run_loop(job, dberr)

RunEnd == run_close

\* time passes between two calls
Tick ==
    /\ run.phase = "loop"
    /\ now < Now0 + MaxTicks
    /\ now' = now + 1
    /\ UNCHANGED <<jobs, uncommitted, txn, next_id, last, run, proc, llm, scrape, calc,
                   eleduck, v2ex, reclassify>>

\* the store before the run: empty, or one row left by an earlier run
SeedPostings ==
    {Posting("Senior Rust Backend Dev", "Remote, full time.", "v2ex"),
     Posting("Go dev", "Remote, full time.", "v2ex")}
SeedAges == {1, WindowDays - 1, WindowDays + 1}
SeedRows ==
    {[new_row(1, p, _generate_hash(p), Now0 - a) EXCEPT !.is_active = act] :
        p \in SeedPostings, a \in SeedAges, act \in BOOLEAN}

IdleProc == [c \in Clients |-> [pc |-> "idle", job |-> Posting("", "", ""), left |-> 0]]
IdleLlm ==
    [op |-> "none", title |-> "", backend |-> "ollama",
     http |-> [kind |-> "none", status |-> 0, shape |-> "none", text |-> ""],
     categories |-> <<>>, admitted |-> FALSE]
IdleScrape == [i |-> 0, all_jobs |-> <<>>, outcomes |-> <<>>, returned |-> FALSE]
IdleCalc == [op |-> "none"]
IdleEleduck ==
    [pc |-> "done", page |-> 1, total_pages |-> 1, posts |-> <<>>, i |-> 0, served |-> 0,
     all_jobs |-> <<>>, calls |-> <<>>]
IdleV2EX ==
    [pc |-> "done", token |-> TRUE, node |-> 1, page |-> 1, jobs |-> <<>>, all_jobs |-> <<>>,
     requests |-> <<0, 0>>, served |-> 0, accepted |-> <<>>, stopped |-> <<"", "">>,
     result |-> <<>>]
IdleReclassify ==
    [pc |-> "done", run |-> 0, force_all |-> FALSE, backend |-> "ollama", table |-> <<>>,
     rows |-> <<>>, i |-> 0, updated |-> 0, skipped |-> 0, log |-> <<>>, errors |-> <<>>]
\* rejected and errored are not variables of the program: they count the calls
\* that returned None and the calls that raised
IdleRun ==
    [phase |-> "idle", n |-> 0, inserted |-> 0, skipped |-> 0, rejected |-> 0, errored |-> 0]

Init ==
    /\ jobs \in {<<>>} \cup {<<r>> : r \in SeedRows}
    /\ uncommitted = [c \in Clients |-> <<>>]
    /\ txn = [c \in Clients |-> "idle"]
    /\ next_id = Len(jobs) + 1
    /\ now = Now0
    /\ last = NoCall
    /\ run = [IdleRun EXCEPT !.phase = "loop"]
    /\ proc = IdleProc
    /\ llm = IdleLlm
    /\ scrape = IdleScrape
    /\ calc = IdleCalc
    /\ eleduck = IdleEleduck
    /\ v2ex = IdleV2EX
    /\ reclassify = IdleReclassify

Next == RunStep \/ RunEnd \/ Tick

Spec == Init /\ [][Next]_vars

(***************************************************************************)
(* Properties of insert_job and run_with_database, checked under Spec      *)
(***************************************************************************)
NoTwoSameHash(table) ==
    \A i, j \in 1..Len(table) : i # j => table[i].content_hash # table[j].content_hash

Called == last.op = "insert_job"
CandidateTitle == _normalize_text(chars[last.job.title])
CandidateHash == _generate_hash(last.job)
\* the call created no record
StoreUntouched == jobs \o uncommitted[1] = last.before
Rejected == ~last.raised /\ last.result = None

\* C1: a single client on a duplicate-free store never stores two jobs with the
\* same content_hash: a call whose candidate hash is the hash of a stored job,
\* of whatever source_site, creates no record and (when it returns) returns None.
C1_HashUnique ==
    /\ NoTwoSameHash(jobs \o uncommitted[1])
    /\ (Called /\ hash_exists(last.before, CandidateHash))
          => (StoreUntouched /\ (~last.raised => last.result = None))

\* a call was rejected because a job of another source carries the same hash
C1_Witness ==
    /\ Called /\ Rejected /\ last.reason = "hash"
    /\ \E i \in 1..Len(last.before) :
          /\ last.before[i].content_hash = CandidateHash
          /\ last.before[i].source_site # last.job.source_site

\* a stored row of the candidate's source, scraped within the last 30 days, whose
\* normalised title is more than 0.8 similar to the candidate's
SimilarRecent(row) ==
    /\ row.source_site = last.job.source_site
    /\ row.date_scraped > last.at - WindowDays
    /\ gt_0_8(_similarity(CandidateTitle, _normalize_text(row.title)))

C4_RejectsOnlyForHashOrFuzzy ==
    (Called /\ ~last.raised) =>
        /\ last.reason \in {"hash", "similar", "inserted"}
        /\ (last.result = None) <=> (last.reason \in {"hash", "similar"})
        /\ (last.reason = "hash") => hash_exists(last.before, CandidateHash)
        /\ (last.reason = "similar") =>
              /\ Len(CandidateTitle) >= MinFuzzyLen
              /\ \E i \in 1..Len(last.before) :
                    /\ last.before[i].source_site = last.job.source_site
                    /\ last.before[i].date_scraped >= last.at - WindowDays
                    /\ gt_0_8(_similarity(CandidateTitle,
                                          _normalize_text(last.before[i].title)))
        /\ (last.result # None) =>
              /\ ~hash_exists(last.before, CandidateHash)
              /\ \E i \in 1..Len(jobs) :
                    /\ jobs[i].id = last.result
                    /\ jobs[i].content_hash = CandidateHash
              /\ Len(jobs \o uncommitted[1]) = Len(last.before) + 1

\* a short title was inserted although a similar recent job of its source is stored
C4_Witness ==
    /\ Called /\ last.reason = "inserted"
    /\ Len(CandidateTitle) < MinFuzzyLen
    /\ \E i \in 1..Len(last.before) :
          SimilarRecent(last.before[i]) /\ last.before[i].is_active

\* the rows this run inserted (the seed rows are older)
OfThisRun(row) == row.date_scraped >= Now0

\* row b, inserted after row a, is a duplicate of a by the engine's two checks
DuplicateOf(b, a) ==
    \/ b.content_hash = a.content_hash
    \/ /\ Len(_normalize_text(b.title)) >= MinFuzzyLen
       /\ b.source_site = a.source_site
       /\ a.date_scraped > b.date_scraped - WindowDays
       /\ a.is_active
       /\ gt_0_8(_similarity(_normalize_text(b.title), _normalize_text(a.title)))

\* C5: insert_job commits before it returns an id, every call of the run reads the
\* records the run accepted before it, and no two records of one run are
\* duplicates of each other.
C5_IntraRunDedup ==
    /\ uncommitted[1] = <<>>
    /\ (Called /\ ~last.raised /\ last.result # None)
          => \E i \in 1..Len(jobs) : jobs[i].id = last.result
    /\ Called =>
          \A i \in 1..Len(jobs) :
              (OfThisRun(jobs[i]) /\ jobs[i].id # last.result)
                => \E k \in 1..Len(last.before) : last.before[k] = jobs[i]
    /\ \A i, j \in 1..Len(jobs) :
          (i < j /\ OfThisRun(jobs[i]) /\ OfThisRun(jobs[j]))
            => ~DuplicateOf(jobs[j], jobs[i])

\* a posting was rejected as the duplicate of one accepted earlier in the same run
C5_Witness ==
    /\ Called /\ Rejected
    /\ \E i \in 1..Len(last.before) :
          /\ OfThisRun(last.before[i])
          /\ \/ last.before[i].content_hash = CandidateHash
             \/ (last.reason = "similar" /\ SimilarRecent(last.before[i]))
    /\ \E i \in 1..Len(jobs) : jobs[i] = last.before[Len(last.before)]

\* C10 as claimed: a job that is well formed and whose own statements the database
\* does not fail is processed (inserted, or rejected as a duplicate) whatever
\* happened to the jobs before it in the list.
C10_PostingIsolation ==
    (Called /\ last.dberr = "none" /\ last.job.has_url) => ~last.raised

(***************************************************************************)
(* Two pipeline runs on the same store: each statement of insert_job       *)
(* (database.py:17, 99, 49, 66) is one step of its connection              *)
(***************************************************************************)
MaxRaceJobs == 1

RacePostings == {p \in Postings : p.has_url}

\* db.insert_job(job) is called
race_begin(c, job) ==
    /\ proc[c].pc = "idle"
    /\ proc[c].left > 0
    /\ proc' = [proc EXCEPT ![c] = [pc |-> "select_hash", job |-> job, left |-> @.left - 1]]
    /\ UNCHANGED <<jobs, uncommitted, txn, next_id, now, last, run, llm, scrape, calc,
                   eleduck, v2ex, reclassify>>

\* the SELECT by content_hash; a hit returns None, the transaction stays open
race_select_hash(c) ==
    /\ proc[c].pc = "select_hash"
    /\ txn' = [txn EXCEPT ![c] = "intrans"]
    /\ proc' = [proc EXCEPT ![c].pc =
                  IF hash_exists(Visible(c), _generate_hash(proc[c].job))
                  THEN "idle" ELSE "select_similar"]
    /\ UNCHANGED <<jobs, uncommitted, next_id, now, last, run, llm, scrape, calc,
                   eleduck, v2ex, reclassify>>

\* the SELECT of the recent jobs of the source, and the similarity loop
race_select_similar(c) ==
    /\ proc[c].pc = "select_similar"
    /\ proc' = [proc EXCEPT ![c].pc =
                  IF _is_similar_exists(Visible(c), proc[c].job, now)
                  THEN "idle" ELSE "insert"]
    /\ UNCHANGED <<jobs, uncommitted, txn, next_id, now, last, run, llm, scrape, calc,
                   eleduck, v2ex, reclassify>>

\* the INSERT ... RETURNING id
race_insert(c) ==
    /\ proc[c].pc = "insert"
    /\ uncommitted' = [uncommitted EXCEPT ![c] =
                         Append(@, new_row(next_id, proc[c].job,
                                           _generate_hash(proc[c].job), now))]
    /\ next_id' = next_id + 1
    /\ proc' = [proc EXCEPT ![c].pc = "commit"]
    /\ UNCHANGED <<jobs, txn, now, last, run, llm, scrape, calc, eleduck, v2ex, reclassify>>

\* self.conn.commit(), then the id is returned
race_commit(c) ==
    /\ proc[c].pc = "commit"
    /\ jobs' = jobs \o uncommitted[c]
    /\ uncommitted' = [uncommitted EXCEPT ![c] = <<>>]
    /\ txn' = [txn EXCEPT ![c] = "idle"]
    /\ proc' = [proc EXCEPT ![c].pc = "idle"]
    /\ UNCHANGED <<next_id, now, last, run, llm, scrape, calc, eleduck, v2ex, reclassify>>

RaceBegin == \E c \in Clients, job \in RacePostings : race_begin(c, job)
RaceSelectHash == \E c \in Clients : race_select_hash(c)
RaceSelectSimilar == \E c \in Clients : race_select_similar(c)
RaceInsert == \E c \in Clients : race_insert(c)
RaceCommit == \E c \in Clients : race_commit(c)

InitRace ==
    /\ jobs = <<>>
    /\ uncommitted = [c \in Clients |-> <<>>]
    /\ txn = [c \in Clients |-> "idle"]
    /\ next_id = 1
    /\ now = Now0
    /\ last = NoCall
    /\ run = IdleRun
    /\ proc = [c \in Clients |-> [IdleProc[c] EXCEPT !.left = MaxRaceJobs]]
    /\ llm = IdleLlm
    /\ scrape = IdleScrape
    /\ calc = IdleCalc
    /\ eleduck = IdleEleduck
    /\ v2ex = IdleV2EX
    /\ reclassify = IdleReclassify

NextRace == RaceBegin \/ RaceSelectHash \/ RaceSelectSimilar \/ RaceInsert \/ RaceCommit

SpecRace == InitRace /\ [][NextRace]_vars

\* C2 as claimed: whatever the interleaving of the SELECT and INSERT steps of two
\* runs, at most one record with a given content_hash is ever stored.
C2_AtMostOneRecordPerHash == NoTwoSameHash(jobs)

(***************************************************************************)
(* The classifier called on a title, whatever the model service does       *)
(***************************************************************************)
\* await classifier.classify_category(title, description)
classify(title, backend, http) == classify_category(chars[title], backend, http)

ClassifyCategory ==
    \E title \in ClassifierTitles, http \in HttpOutcomes :
        /\ llm' = [op |-> "classify_category", title |-> title, backend |-> llm.backend,
                   http |-> http, categories |-> classify(title, llm.backend, http),
                   admitted |-> FALSE]
        /\ UNCHANGED <<jobs, uncommitted, txn, next_id, now, last, run, proc, scrape, calc,
                       eleduck, v2ex, reclassify>>

IsJobPosting ==
    \E title \in ClassifierTitles, http \in HttpOutcomes :
        /\ llm' = [op |-> "is_job_posting", title |-> title, backend |-> llm.backend,
                   http |-> http, categories |-> <<>>,
                   admitted |-> is_job_posting(chars[title], llm.backend, http)]
        /\ UNCHANGED <<jobs, uncommitted, txn, next_id, now, last, run, proc, scrape, calc,
                       eleduck, v2ex, reclassify>>

InitClassify ==
    /\ jobs = <<>>
    /\ uncommitted = [c \in Clients |-> <<>>]
    /\ txn = [c \in Clients |-> "idle"]
    /\ next_id = 1
    /\ now = Now0
    /\ last = NoCall
    /\ run = IdleRun
    /\ proc = IdleProc
    /\ \E b \in Backends : llm = [IdleLlm EXCEPT !.backend = b]
    /\ scrape = IdleScrape
    /\ calc = IdleCalc
    /\ eleduck = IdleEleduck
    /\ v2ex = IdleV2EX
    /\ reclassify = IdleReclassify

NextClassify == ClassifyCategory \/ IsJobPosting

SpecClassify == InitClassify /\ [][NextClassify]_vars

\* C6 as claimed: classify_category never returns an empty list.
C6_NeverEmpty == (llm.op = "classify_category") => llm.categories # <<>>

\* the model call fails: no connection, a timeout, a status other than 200, or a
\* body that is not JSON
CallFails ==
    \/ llm.http.kind # "response"
    \/ llm.http.status # 200
    \/ llm.http.shape = "not_json"

\* C7: whenever the model call inside classify_category fails, classify_category
\* returns exactly ["other"], whatever the title.
C7_FailSafe ==
    (llm.op = "classify_category" /\ CallFails) => llm.categories = <<"other">>

\* the call failed on a title the correction rules would have forced to mobile
C7_Witness ==
    /\ llm.op = "classify_category" /\ CallFails
    /\ any_in(mobile_kw, lower(chars[llm.title]))
    /\ llm.categories = <<"other">>

\* the answer body is malformed: not JSON, or JSON without the answer text
MalformedBody ==
    /\ llm.http.kind = "response"
    /\ llm.http.status = 200
    /\ llm.http.shape \in {"not_json", "no_field", "null"}

\* C8 as claimed: whenever the model call inside is_job_posting fails (transport
\* error, timeout, non-200 status, malformed body), is_job_posting returns True.
C8_FailOpen ==
    (llm.op = "is_job_posting" /\ (CallFails \/ MalformedBody)) => llm.admitted = TRUE

(***************************************************************************)
(* main.py: scrape_all                                                     *)
(***************************************************************************)
MaxScraped == 2

\* scrapers = [('V2EX', V2EXScraper()), ('RemoteOK', RemoteOKScraper())]
Scrapers == <<"v2ex", "remoteok">>

RECURSIVE Lists(_, _)
Lists(S, n) ==
    IF n = 0 THEN {<<>>}
    ELSE Lists(S, n - 1) \cup {Append(l, x) : l \in Lists(S, n - 1), x \in S}

\* what `await scraper.scrape()` does: it raises, or returns a list of jobs
ScrapeOutcomes(name) ==
    {[raised |-> TRUE, jobs |-> <<>>]}
    \cup {[raised |-> FALSE, jobs |-> l] :
            l \in Lists({p \in Postings : p.source_site = name}, MaxScraped)}

\* faulty variant: the except branch leaves the loop
scrape_one_abort(outcome) ==
    /\ ~scrape.returned
    /\ scrape.i < Len(Scrapers)
    /\ scrape' = [i        |-> IF outcome.raised THEN Len(Scrapers) ELSE scrape.i + 1,
                  all_jobs |-> IF outcome.raised THEN scrape.all_jobs
                               ELSE scrape.all_jobs \o outcome.jobs,
                  outcomes |-> Append(scrape.outcomes, outcome),
                  returned |-> FALSE]
    /\ UNCHANGED <<jobs, uncommitted, txn, next_id, now, last, run, proc, llm, calc,
                   eleduck, v2ex, reclassify>>

\* one iteration of `for name, scraper in scrapers`: try: jobs = await
\* scraper.scrape(); all_jobs.extend(jobs)  except Exception: (logged)
scrape_one(outcome) ==
    /\ ~scrape.returned
    /\ scrape.i < Len(Scrapers)
    /\ scrape' = [i        |-> scrape.i + 1,
                  all_jobs |-> IF outcome.raised THEN scrape.all_jobs
                               ELSE scrape.all_jobs \o outcome.jobs,
                  outcomes |-> Append(scrape.outcomes, outcome),
                  returned |-> FALSE]
    /\ UNCHANGED <<jobs, uncommitted, txn, next_id, now, last, run, proc, llm, calc,
                   eleduck, v2ex, reclassify>>

\* return all_jobs
scrape_return ==
    /\ ~scrape.returned
    /\ scrape.i = Len(Scrapers)
    /\ scrape' = [scrape EXCEPT !.returned = TRUE]
    /\ UNCHANGED <<jobs, uncommitted, txn, next_id, now, last, run, proc, llm, calc,
                   eleduck, v2ex, reclassify>>

ScrapeOne ==
    /\ scrape.i < Len(Scrapers)
    /\ \E outcome \in ScrapeOutcomes(Scrapers[scrape.i + 1]) : scrape_one(outcome)
ScrapeReturn == scrape_return

InitScrape ==
    /\ jobs = <<>>
    /\ uncommitted = [c \in Clients |-> <<>>]
    /\ txn = [c \in Clients |-> "idle"]
    /\ next_id = 1
    /\ now = Now0
    /\ last = NoCall
    /\ run = IdleRun
    /\ proc = IdleProc
    /\ llm = IdleLlm
    /\ scrape = IdleScrape
    /\ calc = IdleCalc
    /\ eleduck = IdleEleduck
    /\ v2ex = IdleV2EX
    /\ reclassify = IdleReclassify

NextScrape == ScrapeOne \/ ScrapeReturn

SpecScrape == InitScrape /\ [][NextScrape]_vars

\* the jobs of the sources that did not raise, in source order
RECURSIVE Collected(_)
Collected(outcomes) ==
    IF outcomes = <<>> THEN <<>>
    ELSE (IF Head(outcomes).raised THEN <<>> ELSE Head(outcomes).jobs)
         \o Collected(Tail(outcomes))

\* C9: a source whose scrape() raises contributes no jobs; the jobs collected
\* so far are kept, every remaining source is still scraped, and scrape_all
\* returns the jobs of all sources that did not raise.
C9_SourceIsolation ==
    /\ scrape.all_jobs = Collected(scrape.outcomes)
    /\ Len(scrape.outcomes) = scrape.i
    /\ scrape.returned => Len(scrape.outcomes) = Len(Scrapers)

\* the first source raised, the second was scraped and its jobs are returned
C9_Witness ==
    /\ scrape.returned
    /\ scrape.outcomes[1].raised
    /\ scrape.outcomes[2].jobs # <<>>
    /\ scrape.all_jobs = scrape.outcomes[2].jobs

(***************************************************************************)
(* utils/database.py: the pure text functions, each called once on one of  *)
(* its inputs                                                              *)
(***************************************************************************)
MaxTextLen == 4
MaxSimLen == 2

\* the texts _normalize_text is called on: every short text over a bracket pair,
\* a newline, a blank and a letter, and some titles
TextAlphabet == {"(", ")", "\n", " ", "S"}
NamedTexts == {"senseniorior", "Senior Rust Backend Dev", "[Remote] rust backend dev", "abc"}
Texts == Lists(TextAlphabet, MaxTextLen) \cup {chars[k] : k \in NamedTexts}

\* the (title, description) pairs _generate_hash is called on
HashTitles == {"a", "ab", "Go dev", "Go devs", "Senior Rust Backend Dev", "[Remote] rust backend dev"}
HashDescriptions == {"c", "bc", "abc", "Remote, full time.", "Part-time contract"}
HashInputs == {[title |-> t, description |-> d] : t \in HashTitles, d \in HashDescriptions}

\* the strings _similarity is called on
SimStrings == Lists({"a", "b", "c"}, MaxSimLen) \cup {chars["abc"], chars["ab"]}

Normalize ==
    /\ calc = IdleCalc
    /\ \E text \in Texts :
        /\ calc' = [op |-> "_normalize_text", text |-> text,
                    once |-> _normalize_text(text),
                    twice |-> _normalize_text(_normalize_text(text))]
        /\ UNCHANGED <<jobs, uncommitted, txn, next_id, now, last, run, proc, llm, scrape, eleduck,
                       v2ex, reclassify>>

GenerateHash ==
    /\ calc = IdleCalc
    /\ \E a \in HashInputs, b \in HashInputs :
        /\ calc' = [op |-> "_generate_hash", a |-> a, b |-> b,
                    hash_a |-> _generate_hash(a), hash_b |-> _generate_hash(b)]
        /\ UNCHANGED <<jobs, uncommitted, txn, next_id, now, last, run, proc, llm, scrape, eleduck,
                       v2ex, reclassify>>

Similarity ==
    /\ calc = IdleCalc
    /\ \E s1 \in SimStrings, s2 \in SimStrings :
        /\ calc' = [op |-> "_similarity", s1 |-> s1, s2 |-> s2,
                    forward |-> _similarity(s1, s2), backward |-> _similarity(s2, s1)]
        /\ UNCHANGED <<jobs, uncommitted, txn, next_id, now, last, run, proc, llm, scrape, eleduck,
                       v2ex, reclassify>>

InitText ==
    /\ jobs = <<>>
    /\ uncommitted = [c \in Clients |-> <<>>]
    /\ txn = [c \in Clients |-> "idle"]
    /\ next_id = 1
    /\ now = Now0
    /\ last = NoCall
    /\ run = IdleRun
    /\ proc = IdleProc
    /\ llm = IdleLlm
    /\ scrape = IdleScrape
    /\ calc = IdleCalc
    /\ eleduck = IdleEleduck
    /\ v2ex = IdleV2EX
    /\ reclassify = IdleReclassify

NextText == Normalize \/ GenerateHash \/ Similarity

SpecText == InitText /\ [][NextText]_vars

\* C11 as claimed: normalising a normalised text changes nothing.
C11_NormalizeIdempotent ==
    (calc.op = "_normalize_text") => calc.twice = calc.once

\* the two things the hash is said to depend on
NormalizedTitle(job_data) == normalize_steps(chars[job_data.title])
NormalizedDescription200(job_data) ==
    prefix(normalize_steps(chars[job_data.description]), DescHashLen)

\* C12 as claimed: two postings get different hashes if and only if their
\* normalised titles differ or the first 200 characters of their normalised
\* descriptions differ.
C12_HashDiffersIffPartsDiffer ==
    (calc.op = "_generate_hash") =>
        ((calc.hash_a # calc.hash_b) <=>
            \/ NormalizedTitle(calc.a) # NormalizedTitle(calc.b)
            \/ NormalizedDescription200(calc.a) # NormalizedDescription200(calc.b))

\* C13: the similarity score is symmetric, lies in [0, 1], is the size of the
\* intersection of the two character sets over the size of their union for
\* non-empty strings, and is 0 when either string is empty.
C13_SimilarityIsJaccard ==
    (calc.op = "_similarity") =>
        /\ calc.forward = calc.backward
        /\ calc.forward.den > 0
        /\ 0 <= calc.forward.num /\ calc.forward.num <= calc.forward.den
        /\ (calc.s1 # <<>> /\ calc.s2 # <<>>) =>
              /\ calc.forward.num =
                    Cardinality({c \in set(calc.s1) : \E i \in 1..Len(calc.s2) : calc.s2[i] = c})
              /\ calc.forward.den =
                    Cardinality({c \in {"a", "b", "c"} :
                                   \/ \E i \in 1..Len(calc.s1) : calc.s1[i] = c
                                   \/ \E i \in 1..Len(calc.s2) : calc.s2[i] = c})
        /\ (calc.s1 = <<>> \/ calc.s2 = <<>>) => calc.forward.num = 0

\* two different strings that share some but not all of their characters
C13_Witness ==
    /\ calc.op = "_similarity"
    /\ calc.s1 = <<"a", "b">> /\ calc.s2 = <<"b", "c">>
    /\ calc.forward = [num |-> 1, den |-> 3]

(***************************************************************************)
(* utils/ai_classifier.py: the correction layer applied to a list of keys  *)
(***************************************************************************)
MaxKeys == 2

\* categories = self._enforce_category_rules(title, categories), then
\* if len(categories) > 1 and "other" in categories: drop every "other"
correction_layer(title, categories) ==
    LET enforced == _enforce_category_rules(title, categories)
    IN  IF Len(enforced) > 1 /\ has(enforced, "other")
        THEN without(enforced, "other")
        ELSE enforced

\* the lists of taxonomy keys the layer is applied to
KeyLists == Lists({CATEGORY_KEYS[i] : i \in 1..Len(CATEGORY_KEYS)}, MaxKeys)

CorrectionLayer ==
    /\ calc = IdleCalc
    /\ \E title \in ClassifierTitles, categories \in KeyLists :
        /\ calc' = [op |-> "correction_layer", title |-> title, categories |-> categories,
                    once |-> correction_layer(chars[title], categories),
                    twice |-> correction_layer(chars[title],
                                               correction_layer(chars[title], categories))]
        /\ UNCHANGED <<jobs, uncommitted, txn, next_id, now, last, run, proc, llm, scrape, eleduck,
                       v2ex, reclassify>>

NextRules == CorrectionLayer

SpecRules == InitText /\ [][NextRules]_vars

\* C14 as claimed: for every title and every list of taxonomy keys, applying the
\* correction layer to its own output returns that output unchanged.
C14_LayerIdempotent ==
    (calc.op = "correction_layer") => calc.twice = calc.once

(***************************************************************************)
(* scrapers/eleduck_scraper.py and scrapers/remoteok_scraper.py: the rule  *)
(* filter and the category extractors                                      *)
(***************************************************************************)
dev_keywords ==
    <<"developer", "engineer", "programmer", "architect", "u524du7aef", "u540eu7aef",
      "u5f00u53d1", "u5de5u7a0bu5e08", "u5168u6808", "ios", "android", "flutter", "react",
      "vue", "python", "java", "golang", "rust", "u62dbu8058", "u8bdau62db",
      "u5bfbu627eu4f19u4f34", "u62dbu4eba", "solidity", "web3", "u533au5757u94fe",
      "blockchain", "devops", "sre", "u8fd0u7ef4", "u6d4bu8bd5", "qa", "u4ea7u54c1",
      "designer", "u8bbeu8ba1", "ui", "ux">>

exclude_keywords ==
    <<"u6c42u804c", "u5bfbu627eu673au4f1a", "u627eu5de5u4f5c", "u8001u5175", "u6c42u5e26",
      "u5168u804cu8fdcu7a0bu6c42", "u672cu4eba", "u81eau6211u4ecbu7ecd", "u6280u672fu6808:",
      "u4ecbu7ecdu4e00u4e0bu81eau5df1", "u5bfbu6c42", "u63a2u7d22", "u6211u662f",
      "u76eeu524du662f", "u72b6u6001u662f", "u76eeu524du5728", "u81eau7531u804cu4e1a",
      "u5927u5382", "u4e30u5bccu7ecfu9a8c", "u9879u76eeu7ecfu9a8c", "u591au5e74u7ecfu9a8c",
      "u5bfbu627eu957fu671fu65b9u5411", "u6c42u63a8u8350", "u6c42u6307u70b9",
      "u6c42u5173u6ce8", "u80ccu666f", "u4e2au4ebau7b80u4ecb", "u4e2au4ebau7b80u5386",
      "u6211u7684u7ecfu5386", "u5206u4eab", "u6559u7a0b", "u611fu609f", "u8f6cu884c",
      "u6c42u52a9", "u54a8u8be2", "u9632u9a97", "u66ddu5149", "u95eeu5377", "u8c03u67e5",
      "u6211u5f00u53d1u7684", "u7b2cu4e00u6b3e", "u521du8877", "u6545u4e8b", "u5fc3u5f97",
      "u5f00u6e90u4e86", "u4f5cu54c1", "u9879u76eeu5c55u793a", "u5982u4f55", "u7a81u56f4",
      "u63a2u8ba8", "u601du8003", "u5173u4e8e", "u5efau8bae", "u5982u864eu6dfbu7ffc",
      "u8c08u8c08", "u770bu6cd5", "u8bc4u4ef7", "u56deu9988", "u62bdu5956", "u8ba8u8bba",
      "u770bu6cd5", "u8bc4u4ef7">>

Digits == {"0", "1", "2", "3", "4", "5", "6", "7", "8", "9"}

\* re.search(r'\d+\s*[...].*?[...]', title, re.IGNORECASE) (eleduck_scraper.py:213):
\* digits, blanks, one character of the first class, anything on the same line,
\* one character of the second class
years_of_experience(title) ==
    LET first  == {"u5e74", "y", "(", "e", "a", "r", "s", "?", ")"}
        second == {"u7ecf", "u9a8c", "e", "x", "p"}
        t      == lower(title)
    IN  \E i \in 1..Len(t) : \E m \in i..Len(t) : \E j \in (m + 1)..Len(t) :
          \E k \in (j + 1)..Len(t) :
            /\ \A q \in i..m : t[q] \in Digits
            /\ \A q \in (m + 1)..(j - 1) : t[q] \in Whitespace
            /\ t[j] \in first
            /\ \A q \in (j + 1)..(k - 1) : t[q] # "\n"
            /\ t[k] \in second

\* faulty variant: the exclusion keywords lose against a job-indicator keyword
_is_dev_job_indicator_wins(title, description) ==
    any_in(dev_keywords, lower(title \o <<" ">> \o description))

_is_dev_job(title, description) ==
    LET text == lower(title \o <<" ">> \o description)
    IN  IF years_of_experience(title) THEN FALSE
        ELSE LET has_dev     == any_in(dev_keywords, text)
                 is_negative ==
                     \/ any_in(exclude_keywords, lower(title))
                     \/ (contains(chars["u6211"], title) /\ ~contains(chars["u62dbu8058"], title))
             IN  has_dev /\ ~is_negative

Eleduck_category_rules ==
    <<[category |-> "frontend", kw |-> <<"frontend", "front-end", "u524du7aef", "react", "vue", "angular", "flutter">>],
      [category |-> "backend", kw |-> <<"backend", "back-end", "u540eu7aef", "python", "java", "go", "golang", "node", "ruby", "php">>],
      [category |-> "fullstack", kw |-> <<"fullstack", "full-stack", "u5168u6808">>],
      [category |-> "mobile", kw |-> <<"mobile", "ios", "android", "u79fbu52a8u7aef">>],
      [category |-> "devops", kw |-> <<"devops", "sre", "u8fd0u7ef4", "infrastructure">>],
      [category |-> "ai", kw |-> <<"data", "ml", "ai", "u7b97u6cd5", "big data", "u6570u636e">>]>>

\* the category of the first rule one of whose keywords occurs in text, else 'unknown'
first_rule(rules, text) ==
    LET hit == {i \in 1..Len(rules) : any_in(rules[i].kw, text)}
    IN  IF hit = {} THEN "unknown"
        ELSE rules[CHOOSE i \in hit : \A m \in hit : i <= m].category

\* EleduckScraper._extract_category
Eleduck_extract_category(title, description) ==
    first_rule(Eleduck_category_rules, lower(title \o <<" ">> \o description))

category_mapping ==
    <<[category |-> "frontend", kw |-> <<"frontend", "front-end", "react", "vue", "angular", "javascript", "css">>],
      [category |-> "backend", kw |-> <<"backend", "back-end", "python", "go", "golang", "java", "ruby", "php", "rust", "node">>],
      [category |-> "fullstack", kw |-> <<"fullstack", "full-stack", "full stack">>],
      [category |-> "mobile", kw |-> <<"mobile", "ios", "android", "flutter", "react native", "swift", "kotlin">>],
      [category |-> "devops", kw |-> <<"devops", "sre", "infrastructure", "kubernetes", "aws", "cloud">>],
      [category |-> "ai", kw |-> <<"machine learning", "ml", "ai", "data science", "nlp", "deep learning">>],
      [category |-> "blockchain", kw |-> <<"blockchain", "web3", "solidity", "crypto", "defi">>]>>

\* ' '.join(tags)
RECURSIVE join(_)
join(tags) ==
    IF tags = <<>> THEN <<>>
    ELSE IF Len(tags) = 1 THEN chars[tags[1]]
    ELSE chars[tags[1]] \o <<" ">> \o join(Tail(tags))

\* RemoteOKScraper._map_category
_map_category(tags) ==
    IF tags = <<>> THEN "unknown"
    ELSE LET tag_str == lower(join(tags))
             mapped  == first_rule(category_mapping, tag_str)
         IN  IF mapped # "unknown" THEN mapped
             ELSE IF contains(chars["dev"], tag_str) \/ contains(chars["engineer"], tag_str)
                  THEN "fullstack"
                  ELSE "unknown"

EleduckTitles ==
    {"u62dbu8058 React u5f00u53d1uff0cu65f6u85aa 200", "5u5e74Javau6c42u804cu8fdcu7a0b",
     "Java u6c42u804cu8fdcu7a0b", "u6211u505au4e86u4e2a Python u5de5u5177",
     "u6211u53f8u62dbu8058u540eu7aefu5de5u7a0bu5e08", "u5468u672bu7ebfu4e0bu805au4f1a",
     "Senior Rust Engineer", "3 years exp: Go dev", "u62dbu8058u4ea7u54c1u7ecfu7406"}
EleduckSummaries ==
    {"u8fdcu7a0buff0cu5f85u9047u9762u8bae", "u6c42u804cuff1au719fu6089 Java",
     "We need a golang engineer", ""}
TagLists ==
    {<<>>, <<"react", "css">>, <<"design", "marketing">>, <<"dev">>, <<"golang">>,
     <<"Machine Learning">>, <<"writer">>, <<"engineer", "css">>}

IsDevJob ==
    /\ calc = IdleCalc
    /\ \E title \in EleduckTitles, description \in EleduckSummaries :
        /\ calc' = [op |-> "_is_dev_job", title |-> title, description |-> description,
                    result |-> _is_dev_job(chars[title], chars[description])]
        /\ UNCHANGED <<jobs, uncommitted, txn, next_id, now, last, run, proc, llm, scrape, eleduck,
                       v2ex, reclassify>>

ExtractCategory ==
    /\ calc = IdleCalc
    /\ \E title \in EleduckTitles, description \in EleduckSummaries :
        /\ calc' = [op |-> "_extract_category", title |-> title, description |-> description,
                    result |-> Eleduck_extract_category(chars[title], chars[description])]
        /\ UNCHANGED <<jobs, uncommitted, txn, next_id, now, last, run, proc, llm, scrape, eleduck,
                       v2ex, reclassify>>

MapCategory ==
    /\ calc = IdleCalc
    /\ \E tags \in TagLists :
        /\ calc' = [op |-> "_map_category", tags |-> tags, result |-> _map_category(tags)]
        /\ UNCHANGED <<jobs, uncommitted, txn, next_id, now, last, run, proc, llm, scrape, eleduck,
                       v2ex, reclassify>>

(***************************************************************************)
(* scrapers/v2ex_scraper.py and scrapers/remoteok_scraper.py: the region   *)
(* extractors.  A regular expression is a sequence of elements: a literal, *)
(* \b, \s* or \s+, [\s-]*, an optional literal, a group of alternatives.   *)
(***************************************************************************)
Bd == [k |-> "b"]
Ws0 == [k |-> "ws", min |-> 0]
Ws1 == [k |-> "ws", min |-> 1]
WsDash == [k |-> "wsdash"]
Lit(s) == [k |-> "lit", s |-> chars[s]]
Opt(s) == [k |-> "opt", s |-> chars[s]]
Alt(ps) == [k |-> "alt", ps |-> ps]

\* the characters \w does not match, among those the texts use
NonWord ==
    ((Whitespace \cup Punctuation \cup Openers \cup Closers)
       \cup {"+", "/", "@", "#", "&", "*", "=", "<", ">", "|", "~", "%", "$"}) \ {"_"}
is_word(s, pos) == pos >= 1 /\ pos <= Len(s) /\ s[pos] \notin NonWord

\* s holds k at position pos
has_at(k, s, pos) == pos + Len(k) - 1 <= Len(s) /\ SubSeq(s, pos, pos + Len(k) - 1) = k

\* the positions at which a match of pat[k..], begun at pos, can end
RECURSIVE match_ends(_, _, _, _)
match_ends(pat, k, s, pos) ==
    IF k > Len(pat) THEN {pos}
    ELSE LET e == pat[k]
             span(cs, min) == {q \in (pos + min)..(Len(s) + 1) : \A r \in pos..(q - 1) : s[r] \in cs}
             nexts ==
                 CASE e.k = "lit" -> IF has_at(e.s, s, pos) THEN {pos + Len(e.s)} ELSE {}
                   [] e.k = "opt" -> {pos} \cup (IF has_at(e.s, s, pos)
                                                 THEN {pos + Len(e.s)} ELSE {})
                   [] e.k = "b" -> IF is_word(s, pos - 1) # is_word(s, pos) THEN {pos} ELSE {}
                   [] e.k = "ws" -> span(Whitespace, e.min)
                   [] e.k = "wsdash" -> span(Whitespace \cup {"-"}, 0)
                   [] e.k = "alt" -> UNION {match_ends(e.ps[i], 1, s, pos) : i \in 1..Len(e.ps)}
         IN  UNION {match_ends(pat, k + 1, s, q) : q \in nexts}

\* re.search(pattern, s) finds a match
re_search(pat, s) == \E pos \in 1..(Len(s) + 1) : match_ends(pat, 1, s, pos) # {}

\* any(re.search(p, s) for p in patterns)
any_search(patterns, s) == \E i \in 1..Len(patterns) : re_search(patterns[i], s)

\* group(2) of the leftmost match of (utc|gmt)\s*([+-]\d{1,2}) followed by `rest`,
\* <<>> when there is no match; \d{1,2} takes two digits when it can
tz_offset(s, rest) ==
    LET sign_at(i) == CHOOSE j \in (i + 3)..(Len(s) + 1) :
                         /\ \A r \in (i + 3)..(j - 1) : s[r] \in Whitespace
                         /\ (j > Len(s) \/ s[j] \notin Whitespace)
        ok(i, n) ==
            /\ has_at(chars["utc"], s, i) \/ has_at(chars["gmt"], s, i)
            /\ LET j == sign_at(i)
               IN  /\ j + n <= Len(s)
                   /\ s[j] \in {"+", "-"}
                   /\ \A r \in (j + 1)..(j + n) : s[r] \in Digits
                   /\ match_ends(rest, 1, s, j + n + 1) # {}
        starts == {i \in 1..Len(s) : ok(i, 1) \/ ok(i, 2)}
    IN  IF starts = {} THEN <<>>
        ELSE LET i == CHOOSE i \in starts : \A m \in starts : i <= m
                 j == sign_at(i)
             IN  SubSeq(s, j, j + (IF ok(i, 2) THEN 2 ELSE 1))

us_patterns ==
    <<<<Bd, Lit("us"), Ws0, Lit("only"), Bd>>, <<Bd, Lit("usa"), Ws0, Lit("only"), Bd>>,
      <<Bd, Lit("us"), Ws0, Lit("based"), Bd>>,
      <<Bd, Lit("us"), Ws0, Lit("resident"), Opt("s"), Bd>>,
      <<Lit("united"), Ws1, Lit("states"), Ws1, Lit("only")>>,
      <<Lit("america"), Ws1, Lit("only")>>, <<Lit("u4ec5u9650u7f8eu56fd")>>,
      <<Lit("u7f8eu56fdu5730u533a")>>>>

eu_patterns ==
    <<<<Bd, Lit("eu"), Ws0, Lit("only"), Bd>>, <<Bd, Lit("europe"), Ws0, Lit("only"), Bd>>,
      <<Bd, Lit("european"), Ws1, Lit("only"), Bd>>, <<Bd, Lit("eu"), Ws0, Lit("based"), Bd>>,
      <<Bd, Lit("europe"), Ws0, Lit("based"), Bd>>, <<Bd, Lit("emea"), Ws0, Lit("only"), Bd>>,
      <<Lit("u4ec5u9650u6b27u6d32")>>, <<Lit("u6b27u6d32u5730u533a")>>>>

cn_patterns ==
    <<<<Lit("u4ec5u9650u4e2du56fd")>>, <<Lit("u4e2du56fdu5730u533a")>>,
      <<Lit("u4ec5u9650u56fdu5185")>>, <<Lit("u56fdu5185u5730u533a")>>,
      <<Lit("u9650u4e2du56fdu5927u9646")>>, <<Bd, Lit("china"), Ws0, Lit("only"), Bd>>,
      <<Bd, Lit("china"), Ws0, Lit("based"), Bd>>>>

apac_patterns ==
    <<<<Bd, Lit("apac"), Ws0, Lit("only"), Bd>>, <<Bd, Lit("asia"), Ws0, Lit("only"), Bd>>,
      <<Bd, Lit("asia"), WsDash, Lit("pacific"), Ws0, Lit("only"), Bd>>,
      <<Lit("u4ec5u9650u4e9au592a")>>, <<Lit("u4e9au592au5730u533a")>>>>

\* the qualifier of an explicit timezone requirement
tz_qualifier ==
    <<Ws0, Alt(<<<<Lit("required")>>, <<Lit("u65f6u533a")>>, <<Lit("u5de5u4f5cu65f6u95f4")>>,
                 <<Lit("u914du5408")>>>>)>>
pst_pattern ==
    <<Bd, Alt(<<<<Lit("pst")>>, <<Lit("pacific"), Ws1, Lit("time")>>>>), Ws0,
      Alt(<<<<Lit("required")>>, <<Lit("u65f6u533a")>>, <<Lit("u5de5u4f5cu65f6u95f4")>>>>)>>
est_pattern ==
    <<Bd, Alt(<<<<Lit("est")>>, <<Lit("eastern"), Ws1, Lit("time")>>>>), Ws0,
      Alt(<<<<Lit("required")>>, <<Lit("u65f6u533a")>>, <<Lit("u5de5u4f5cu65f6u95f4")>>>>)>>
beijing_pattern ==
    <<Alt(<<<<Lit("u5317u4eacu65f6u95f4")>>, <<Lit("u4e1cu516bu533a")>>>>), Ws0,
      Alt(<<<<Lit("u5de5u4f5c")>>, <<Lit("u914du5408")>>, <<Lit("required")>>>>)>>

\* faulty variant: the EU patterns are tried before the US patterns
V2EX_extract_region_eu_first(text) ==
    LET text_lower == lower(text)
        offset     == tz_offset(text_lower, tz_qualifier)
    IN  IF any_search(eu_patterns, text_lower) THEN chars["EU"]
        ELSE IF any_search(us_patterns, text_lower) THEN chars["US"]
        ELSE IF any_search(cn_patterns, text_lower) THEN chars["CN"]
        ELSE IF any_search(apac_patterns, text_lower) THEN chars["APAC"]
        ELSE IF offset # <<>> THEN chars["UTC"] \o offset
        ELSE IF re_search(pst_pattern, text_lower) THEN chars["UTC-8"]
        ELSE IF re_search(est_pattern, text_lower) THEN chars["UTC-5"]
        ELSE IF re_search(beijing_pattern, text_lower) THEN chars["UTC+8"]
        ELSE chars["CN"]

\* V2EXScraper._extract_region
V2EX_extract_region(text) ==
    LET text_lower == lower(text)
        offset     == tz_offset(text_lower, tz_qualifier)
    IN  IF any_search(us_patterns, text_lower) THEN chars["US"]
        ELSE IF any_search(eu_patterns, text_lower) THEN chars["EU"]
        ELSE IF any_search(cn_patterns, text_lower) THEN chars["CN"]
        ELSE IF any_search(apac_patterns, text_lower) THEN chars["APAC"]
        ELSE IF offset # <<>> THEN chars["UTC"] \o offset
        ELSE IF re_search(pst_pattern, text_lower) THEN chars["UTC-8"]
        ELSE IF re_search(est_pattern, text_lower) THEN chars["UTC-5"]
        ELSE IF re_search(beijing_pattern, text_lower) THEN chars["UTC+8"]
        ELSE chars["CN"]

\* RemoteOKScraper._extract_region, on item.get('location', '') or ''
RemoteOK_extract_region(item_location) ==
    LET location == lower(item_location)
        offset   == tz_offset(location, <<>>)
        asia     == <<Bd, Alt(<<<<Lit("asia")>>, <<Lit("apac")>>, <<Lit("asia-pacific")>>>>), Bd>>
    IN  IF location = <<>> \/ \E w \in {"worldwide", "anywhere", "remote", "global"} : location = chars[w]
        THEN chars["worldwide"]
        ELSE IF any_in(<<"usa", "us only", "united states", "america", "u.s.">>, location)
        THEN chars["US"]
        ELSE IF any_in(<<"europe", "eu only", "uk", "emea", "european">>, location)
        THEN chars["EU"]
        ELSE IF re_search(asia, location) \/ any_in(<<"australia", "latam">>, location)
        THEN chars["APAC"]
        ELSE IF offset # <<>> THEN chars["UTC"] \o offset
        ELSE IF contains(chars["pst"], location) \/ contains(chars["pacific"], location)
        THEN chars["UTC-8"]
        ELSE IF contains(chars["est"], location) \/ contains(chars["eastern"], location)
        THEN chars["UTC-5"]
        ELSE IF contains(chars["cet"], location) \/ contains(chars["central european"], location)
        THEN chars["UTC+1"]
        ELSE chars["worldwide"]

(***************************************************************************)
(* scrapers/v2ex_scraper.py: the keyword category extractor.  The terms of *)
(* a category are its substrings (kw) and its \b...\b words (words).       *)
(***************************************************************************)
V2EX_keywords ==
    <<[category |-> "frontend", kw |-> <<"u524du7aef", "frontend", "webu524du7aef">>,
       words |-> <<>>],
      [category |-> "backend", kw |-> <<"u540eu7aef", "backend", "u670du52a1u7aef", "server", "python", "ruby", "rust", "u67b6u6784u5e08">>,
       words |-> <<"java", "php", "golang", "go">>],
      [category |-> "fullstack", kw |-> <<"u5168u6808", "fullstack", "full-stack", "full stack">>,
       words |-> <<>>],
      [category |-> "mobile", kw |-> <<"u79fbu52a8u5f00u53d1", "flutter", "react native", "appu5f00u53d1", "u5b89u5353">>,
       words |-> <<"ios", "android">>],
      [category |-> "game", kw |-> <<"cocos", "unity", "unreal", "ue4", "ue5", "u6e38u620fu5ba2u6237u7aef", "game dev", "u6e38u620fu5f15u64ce">>,
       words |-> <<>>],
      [category |-> "security", kw |-> <<"u5b89u5168", "security", "u6e17u900f", "penetration", "red team", "u653bu9632", "infosec", "u6f0fu6d1e">>,
       words |-> <<>>],
      [category |-> "quant", kw |-> <<"u91cfu5316", "quantitative", "u98ceu63a7u5f00u53d1", "trading">>,
       words |-> <<>>],
      [category |-> "devops", kw |-> <<"devops", "u8fd0u7ef4", "kubernetes", "docker", "u4e91u539fu751f">>,
       words |-> <<"sre", "k8s">>],
      [category |-> "blockchain", kw |-> <<"blockchain", "u533au5757u94fe", "web3", "solidity", "smart contract", "u5408u7ea6", "u64aeu5408u4ea4u6613">>,
       words |-> <<>>],
      [category |-> "ai", kw |-> <<"machine learning", "u673au5668u5b66u4e60", "u4ebau5de5u667au80fd", "data scientist", "u7b97u6cd5u5de5u7a0bu5e08", "deep learning">>,
       words |-> <<"nlp">>]>>

priority_categories ==
    <<"fullstack", "game", "quant", "security", "blockchain", "ai", "devops">>

\* the positions, counted from 0, at which \bw\b matches in text
word_positions(w, text) ==
    {p - 1 : p \in {q \in 1..Len(text) : match_ends(<<Bd, Lit(w), Bd>>, 1, text, q) # {}}}

\* find_first_match_pos: the earliest position, counted from 0, of a term in text, else -1
find_first_match_pos(text, terms) ==
    LET plain == {find(chars[terms.kw[i]], text) - 1 : i \in 1..Len(terms.kw)} \ {-1}
        all   == plain \cup UNION {word_positions(terms.words[i], text) : i \in 1..Len(terms.words)}
    IN  IF all = {} THEN -1 ELSE CHOOSE p \in all : \A q \in all : p <= q

\* faulty variant: a priority category is ranked by the position of its keyword
title_key_by_position(category, pos) == pos

\* the sort key of a category matched in the title at position pos
title_key(category, pos) ==
    IF has(priority_categories, category)
    THEN -1000 + (CHOOSE n \in 1..Len(priority_categories) : priority_categories[n] = category) - 1
    ELSE pos

\* V2EXScraper._extract_category
V2EX_extract_category(title, description) ==
    LET title_lower == lower(title)
        desc_lower  == lower(description)
        rules       == 1..Len(V2EX_keywords)
        tpos(i)     == find_first_match_pos(title_lower, V2EX_keywords[i])
        tkey(i)     == title_key(V2EX_keywords[i].category, tpos(i))
        title_matches == {i \in rules : tpos(i) # -1}
        desc_matches  == {i \in rules : find_first_match_pos(desc_lower, V2EX_keywords[i]) # -1}
    IN  IF title_matches # {}
        THEN V2EX_keywords[CHOOSE i \in title_matches : \A m \in title_matches :
                              tkey(i) < tkey(m) \/ (tkey(i) = tkey(m) /\ i <= m)].category
        ELSE IF desc_matches # {}
        THEN V2EX_keywords[CHOOSE i \in desc_matches : \A m \in desc_matches : i <= m].category
        ELSE "unknown"

V2EXTitles ==
    {"u524du7aef/u540eu7aefu5f00u53d1", "u540eu7aef/u524du7aef u5f00u53d1",
     "Java u540eu7aef + Unity u5f00u53d1", "DevOps / Security / Fullstack",
     "u8fd0u7ef4u5b89u5168u5de5u7a0bu5e08", "web3 u91cfu5316 python", "gou5f00u53d1",
     "Go u5de5u7a0bu5e08", "u62dbu8058u5de5u7a0bu5e08", "iOS / Android",
     "React Native u524du7aef", "Rust server, flutter app",
     "NLP u7b97u6cd5u5de5u7a0bu5e08 (docker)", "u8fdcu7a0b golang", "django u5f00u53d1"}
V2EXDescriptions ==
    {"", "u6211u4eecu9700u8981 python u548c unity", "u719fu6089 docker u4e0e webu524du7aef",
     "u4ea7u54c1u7ecfu7406", "Unity u5ba2u6237u7aef"}

RegionTexts ==
    {"Remote backend, PST preferred", "PST required", "EST u65f6u533a", "pacific time  required",
     "US only, PST required", "u9700u8981u914du5408 UTC+8 u5de5u4f5cu65f6u95f4", "GMT-5 required",
     "utc+10required", "UTC+8", "u5317u4eacu65f6u95f4u5de5u4f5c", "Budapest required",
     "Europe based, EU only", "u4e9au592au5730u533a china only", "asia-pacific only",
     "us residents", "u4ec5us only", "CST", "Eastern Time u5de5u4f5cu65f6u95f4",
     "UTC +8u914du5408, EST required", "EU only or US only", "china only, eu based",
     "apac only, china only", "UTC+8 required, asia only", "EST required, PST required",
     "u5317u4eacu65f6u95f4u5de5u4f5c, GMT-5 required"}

Locations ==
    {"Worldwide", "PST", "Pacific timezone", "EST", "Budapest", "UTC+2", "GMT -05", "USA",
     "London, UK", "Asia", "Apache Junction", "CET", "Remote (PST required)", "Latam",
     "Eastern Canada", "Asia-Pacific", ""}

ExtractRegionV2EX ==
    /\ calc = IdleCalc
    /\ \E text \in RegionTexts :
        /\ calc' = [op |-> "V2EX._extract_region", text |-> text,
                    result |-> V2EX_extract_region(chars[text])]
        /\ UNCHANGED <<jobs, uncommitted, txn, next_id, now, last, run, proc, llm, scrape, eleduck,
                       v2ex, reclassify>>

ExtractRegionRemoteOK ==
    /\ calc = IdleCalc
    /\ \E location \in Locations :
        /\ calc' = [op |-> "RemoteOK._extract_region", text |-> location,
                    result |-> RemoteOK_extract_region(chars[location])]
        /\ UNCHANGED <<jobs, uncommitted, txn, next_id, now, last, run, proc, llm, scrape, eleduck,
                       v2ex, reclassify>>

ExtractCategoryV2EX ==
    /\ calc = IdleCalc
    /\ \E title \in V2EXTitles, description \in V2EXDescriptions :
        /\ calc' = [op |-> "V2EX._extract_category", title |-> title, description |-> description,
                    result |-> V2EX_extract_category(chars[title], chars[description])]
        /\ UNCHANGED <<jobs, uncommitted, txn, next_id, now, last, run, proc, llm, scrape, eleduck,
                       v2ex, reclassify>>

NextExtract ==
    \/ IsDevJob \/ ExtractCategory \/ MapCategory
    \/ ExtractRegionV2EX \/ ExtractRegionRemoteOK \/ ExtractCategoryV2EX

SpecExtract == InitText /\ [][NextExtract]_vars

(***************************************************************************)
(* scrapers/eleduck_scraper.py: EleduckScraper.scrape, one action for each *)
(* stretch of the loop between two awaits.  `calls` is the history of the  *)
(* two filters' calls and of the records appended, by page and position.   *)
(***************************************************************************)
MaxPosts == 3
MaxPages == 2

\* the posts the API serves: the title, the outcomes of the two date
\* comparisons, and whether "tags" is null
EleduckPosts ==
    {[title |-> t, touched_old |-> FALSE, pub_old |-> FALSE, tags_null |-> FALSE] :
        t \in {"u6211u53f8u62dbu8058u540eu7aefu5de5u7a0bu5e08", "Java u6c42u804cu8fdcu7a0b", ""}}
    \cup {[title |-> "u6211u53f8u62dbu8058u540eu7aefu5de5u7a0bu5e08", touched_old |-> a,
            pub_old |-> b, tags_null |-> c] :
             <<a, b, c>> \in {<<TRUE, FALSE, FALSE>>, <<FALSE, TRUE, FALSE>>, <<FALSE, FALSE, TRUE>>}}

\* the record after the post at position i is dealt with: the next post,
\* the next page, or the end of the loop
next_post(e) ==
    IF e.i < Len(e.posts) THEN [e EXCEPT !.i = e.i + 1, !.pc = "post"]
    ELSE IF e.page >= e.total_pages THEN [e EXCEPT !.pc = "done"]
    ELSE [e EXCEPT !.page = e.page + 1, !.pc = "get"]

\* faulty variant: every post with a title goes on to stage 2
stage_1_unfiltered(e) ==
    LET post == e.posts[e.i]
        id   == <<e.page, e.i>>
    IN  IF post.title = "" THEN next_post(e)
        ELSE [e EXCEPT !.pc = "stage2",
                       !.calls = Append(e.calls, [op |-> "_is_dev_job", post |-> id,
                                                  result |-> _is_dev_job(chars[post.title], <<>>)])]

\* the loop body up to the await of stage 2
stage_1(e) ==
    LET post == e.posts[e.i]
        id   == <<e.page, e.i>>
        ok   == _is_dev_job(chars[post.title], <<>>)
        log  == Append(e.calls, [op |-> "_is_dev_job", post |-> id, result |-> ok])
    IN  IF post.touched_old THEN [e EXCEPT !.pc = "done"]
        ELSE IF post.pub_old THEN next_post(e)
        ELSE IF post.title = "" THEN next_post(e)
        ELSE IF ~ok THEN next_post([e EXCEPT !.calls = log])
        ELSE [e EXCEPT !.pc = "stage2", !.calls = log]

\* the loop body from the answer of stage 2 on
stage_2(e, answer) ==
    LET post == e.posts[e.i]
        id   == <<e.page, e.i>>
        log  == Append(e.calls, [op |-> "is_job_posting", post |-> id, result |-> answer])
        job  == [source_id |-> id, title |-> post.title,
                 category |-> Eleduck_extract_category(chars[post.title], <<>>),
                 region_limit |-> "CN", source_site |-> "eleduck"]
    IN  IF ~answer THEN next_post([e EXCEPT !.calls = log])
        ELSE IF post.tags_null THEN [e EXCEPT !.pc = "done", !.calls = log]
        ELSE next_post([e EXCEPT !.calls = Append(log, [op |-> "append", post |-> id, result |-> TRUE]),
                                 !.all_jobs = Append(e.all_jobs, job)])

\* client.get raises, or the status is an error, or the body is not JSON
EleduckGetFails ==
    /\ eleduck.pc = "get"
    /\ eleduck' = [eleduck EXCEPT !.pc = "done"]
    /\ UNCHANGED <<jobs, uncommitted, txn, next_id, now, last, run, proc, llm, scrape, calc,
                   v2ex, reclassify>>

\* a page of the API
EleduckGet ==
    /\ eleduck.pc = "get"
    /\ \E posts \in Lists(EleduckPosts, MaxPosts - eleduck.served), total_pages \in 1..MaxPages :
        /\ eleduck' = IF posts = <<>> THEN [eleduck EXCEPT !.pc = "done", !.total_pages = total_pages,
                                                            !.posts = posts, !.i = 0]
                      ELSE [eleduck EXCEPT !.pc = "post", !.total_pages = total_pages,
                                           !.posts = posts, !.i = 1,
                                           !.served = eleduck.served + Len(posts)]
        /\ UNCHANGED <<jobs, uncommitted, txn, next_id, now, last, run, proc, llm, scrape, calc,
                       v2ex, reclassify>>

EleduckStage1 ==
    /\ eleduck.pc = "post"
    /\ eleduck' = stage_1(eleduck)
    /\ UNCHANGED <<jobs, uncommitted, txn, next_id, now, last, run, proc, llm, scrape, calc,
                   v2ex, reclassify>>

EleduckStage2 ==
    /\ eleduck.pc = "stage2"
    /\ \E http \in HttpOutcomes :
        /\ eleduck' = stage_2(eleduck, is_job_posting(chars[eleduck.posts[eleduck.i].title],
                                                      llm.backend, http))
        /\ UNCHANGED <<jobs, uncommitted, txn, next_id, now, last, run, proc, llm, scrape, calc,
                       v2ex, reclassify>>

InitEleduck ==
    /\ jobs = <<>>
    /\ uncommitted = [c \in Clients |-> <<>>]
    /\ txn = [c \in Clients |-> "idle"]
    /\ next_id = 1
    /\ now = Now0
    /\ last = NoCall
    /\ run = IdleRun
    /\ proc = IdleProc
    /\ llm \in {[IdleLlm EXCEPT !.backend = b] : b \in Backends}
    /\ scrape = IdleScrape
    /\ calc = IdleCalc
    /\ eleduck = [IdleEleduck EXCEPT !.pc = "get"]
    /\ v2ex = IdleV2EX
    /\ reclassify = IdleReclassify

NextEleduck == EleduckGetFails \/ EleduckGet \/ EleduckStage1 \/ EleduckStage2

SpecEleduck == InitEleduck /\ [][NextEleduck]_vars

(***************************************************************************)
(* scrapers/v2ex_scraper.py: V2EXScraper.scrape.  One step is one page     *)
(* request of _scrape_via_api with everything up to the next request: the  *)
(* topics of the page go through the filters in order, the loop goes on or *)
(* ends, a node that ends hands its jobs to scrape, and the last node's    *)
(* end is followed by the de-duplication and the return.                   *)
(***************************************************************************)
NODES == <<"remote", "jobs">>
MAX_PAGES == 10
\* a page with fewer results than this is the last one
PageSize == 20

internship_keywords ==
    <<"u5b9eu4e60", "intern", "internship">>

job_seeker_keywords ==
    <<"u63a5u6d3b", "u6c42u804c", "u627eu5de5u4f5c", "u6c42u517cu804c", "u5bfbu6c42",
      "u63a5u5355", "u63a5u79c1u6d3b", "u627eu517cu804c", "u96beu627e", "u60f3u627e",
      "u627eu8fdcu7a0b", "u5728u627e">>

non_tech_keywords ==
    <<"u8fd0u8425", "u5e02u573a", "marketing", "u9500u552e", "sales", "hr", "hrbp", "u4ebau4e8b",
      "u62dbu8058", "u5ba2u670d", "customer", "ux", "ui", "u8bbeu8ba1u5e08", "designer",
      "u8bbeu8ba1", "figma", "sketch", "u4ea4u4e92u8bbeu8ba1", "u89c6u89c9u8bbeu8ba1", "seo">>

V2EX_dev_keywords ==
    <<"python", "java", "javascript", "typescript", "go", "golang", "rust", "c++", "c#", "ruby",
      "php", "swift", "kotlin", "u524du7aef", "frontend", "react", "vue", "angular", "css",
      "html", "web", "u540eu7aef", "backend", "api", "u670du52a1u7aef", "server", "microservice",
      "ios", "android", "flutter", "mobile", "u79fbu52a8", "app", "sql", "mysql", "postgresql",
      "mongodb", "redis", "database", "u6570u636eu5e93", "devops", "sre", "kubernetes", "k8s",
      "docker", "aws", "azure", "gcp", "cloud", "u8fd0u7ef4", "u4e91", "ai", "ml",
      "machine learning", "u673au5668u5b66u4e60", "u7b97u6cd5", "data scientist", "nlp",
      "tensorflow", "pytorch", "blockchain", "u533au5757u94fe", "web3", "solidity",
      "smart contract", "u5f00u53d1", "developer", "engineer", "programmer", "u7a0bu5e8fu5458",
      "u5de5u7a0bu5e08", "software", "coding", "code", "u67b6u6784", "architect", "u5168u6808",
      "fullstack", "tech", "u6280u672f", "u6d4bu8bd5", "qa", "test", "automation", "u5b89u5168",
      "security", "penetration", "u6e17u900f">>

REMOTE_KEYWORDS ==
    <<"u8fdcu7a0b", "remote", "Remote", "REMOTE", "u5728u5bb6", "WFH", "work from home",
      "u5c45u5bb6">>

\* the topics the pages are made of: two postings, the first one again under a later
\* title, a job seeker's post, a post without a category
Topics ==
    {[id |-> 101, title |-> "[u8fdcu7a0b] Python u540eu7aefu5f00u53d1", content |-> ""],
     [id |-> 102, title |-> "Golang engineer", content |-> "WFH, US only"],
     [id |-> 101, title |-> "[u8fdcu7a0b] Python u540eu7aefu5f00u53d1 (u66f4u65b0)", content |-> ""],
     [id |-> 103, title |-> "u6c42u804cuff1au524du7aefu8fdcu7a0b", content |-> ""],
     [id |-> 104, title |-> "u8fdcu7a0bu6280u672fu652fu6301", content |-> ""]}
\* the topic that fills the full pages: a non-technical role, which the filters skip
Filler == [id |-> 100, title |-> "u62dbu8058 UI u8bbeu8ba1u5e08", content |-> ""]
IsServed(topic) == topic # Filler

\* the most topics other than Filler over all the pages of a run, and on a short page
MaxTopics == 3
MaxShort == 2

\* a full page: ts[1] first, ts[2] last, Filler between
FullPage(ts) ==
    [i \in 1..PageSize |->
       IF i = 1 /\ Len(ts) >= 1 THEN ts[1]
       ELSE IF i = PageSize /\ Len(ts) = 2 THEN ts[2] ELSE Filler]

\* data.get('result', []) of a page, with at most `left` topics other than Filler
Pages(left) ==
    Lists(Topics, IF left < MaxShort THEN left ELSE MaxShort)
      \cup {FullPage(ts) : ts \in Lists(Topics, IF left < 2 THEN left ELSE 2)}

\* V2EXScraper._is_dev_related
_is_dev_related(text) == any_in(V2EX_dev_keywords, lower(text))

\* str(topic['id'])
str_id == (100 :> "100") @@ (101 :> "101") @@ (102 :> "102") @@ (103 :> "103") @@ (104 :> "104")

\* the topic passes every `continue` of the loop over the results of a page
accepts(topic) ==
    LET title     == chars[topic.title]
        full_text == title \o <<" ">> \o chars[topic.content]
    IN  /\ ~any_in(internship_keywords, lower(title))
        /\ ~any_in(job_seeker_keywords, title)
        /\ ~any_in(non_tech_keywords, lower(title))
        /\ _is_dev_related(full_text)
        /\ any_in(REMOTE_KEYWORDS, full_text)
        /\ V2EX_extract_category(title, chars[topic.content]) # "unknown"

\* the job built from an accepted topic (company, work_type, source_site, original_url
\* and date_posted are left out)
topic_job(topic) ==
    [source_id    |-> str_id[topic.id],
     title        |-> topic.title,
     category     |-> V2EX_extract_category(chars[topic.title], chars[topic.content]),
     region_limit |-> V2EX_extract_region(chars[topic.title] \o <<" ">> \o chars[topic.content]),
     description  |-> topic.content]

\* for every topic of the pages, the job the loop over the results appends for it:
\* <<>> for a topic the filters skip, else a list of one job
appended_table == [topic \in Topics \cup {Filler} |->
                     IF accepts(topic) THEN <<topic_job(topic)>> ELSE <<>>]

\* the jobs the loop over the results of a page appends, in order
RECURSIVE page_jobs(_)
page_jobs(results) ==
    IF results = <<>> THEN <<>>
    ELSE appended_table[Head(results)] \o page_jobs(Tail(results))

\* the jobs of all_jobs whose source_id is not in seen_ids and not the one of an earlier job
RECURSIVE dedupe(_, _)
dedupe(all_jobs, seen_ids) ==
    IF all_jobs = <<>> THEN <<>>
    ELSE IF Head(all_jobs).source_id \in seen_ids THEN dedupe(Tail(all_jobs), seen_ids)
    ELSE <<Head(all_jobs)>> \o dedupe(Tail(all_jobs), seen_ids \cup {Head(all_jobs).source_id})

\* scrape's de-duplication by topic id
unique_jobs(all_jobs) == dedupe(all_jobs, {})

\* after a node: the next node, or after the last one the de-duplication and the return
node_next(ended) ==
    IF ended.node = Len(NODES)
    THEN [ended EXCEPT !.pc = "done", !.result = unique_jobs(ended.all_jobs)]
    ELSE [ended EXCEPT !.node = ended.node + 1]

\* a node ends: _scrape_node returns its jobs to scrape, which extends all_jobs by them,
\* or raises, which scrape catches.  `why` is not a variable of the program.
node_ends(v, node_jobs, raised, why) ==
    node_next([v EXCEPT !.jobs = <<>>, !.page = 1,
                        !.all_jobs = IF raised THEN v.all_jobs ELSE v.all_jobs \o node_jobs,
                        !.stopped = [v.stopped EXCEPT ![v.node] = why]])

\* client.get(url) was called for the current node
requested(v) == [v EXCEPT !.requests = [v.requests EXCEPT ![v.node] = v.requests[v.node] + 1]]

\* after the loop over the n results of a page: the breaks and the end of the page loop
page_next(w, node_jobs, n) ==
    IF n = 0 THEN node_ends(w, node_jobs, FALSE, "empty")
    ELSE IF n < PageSize THEN node_ends(w, node_jobs, FALSE, "short")
    ELSE IF w.page = MAX_PAGES THEN node_ends(w, node_jobs, FALSE, "max_pages")
    ELSE [w EXCEPT !.jobs = node_jobs, !.page = w.page + 1]

\* the page returned results; served and accepted are not variables of the program
page_ok(v, results) ==
    page_next([requested(v) EXCEPT !.served = v.served + Len(SelectSeq(results, IsServed)),
                                   !.accepted = v.accepted \o page_jobs(results)],
              v.jobs \o page_jobs(results), Len(results))

\* _scrape_node without a token raises before any request
V2EXNoToken ==
    /\ v2ex.pc = "page"
    /\ ~v2ex.token
    /\ v2ex' = node_ends(v2ex, <<>>, TRUE, "no_token")
    /\ UNCHANGED <<jobs, uncommitted, txn, next_id, now, last, run, proc, llm, scrape, calc,
                   eleduck, reclassify>>

\* client.get, raise_for_status or response.json() raises: the except clause breaks
V2EXPageError ==
    /\ v2ex.pc = "page"
    /\ v2ex.token
    /\ v2ex' = node_ends(requested(v2ex), v2ex.jobs, FALSE, "error")
    /\ UNCHANGED <<jobs, uncommitted, txn, next_id, now, last, run, proc, llm, scrape, calc,
                   eleduck, reclassify>>

\* the body is JSON but no object (null, a list): data.get raises outside the try
\* statement and the exception leaves _scrape_via_api
V2EXPageNotObject ==
    /\ v2ex.pc = "page"
    /\ v2ex.token
    /\ v2ex' = node_ends(requested(v2ex), v2ex.jobs, TRUE, "raised")
    /\ UNCHANGED <<jobs, uncommitted, txn, next_id, now, last, run, proc, llm, scrape, calc,
                   eleduck, reclassify>>

\* data.get('success') is false or missing
V2EXPageFailure ==
    /\ v2ex.pc = "page"
    /\ v2ex.token
    /\ v2ex' = node_ends(requested(v2ex), v2ex.jobs, FALSE, "failure")
    /\ UNCHANGED <<jobs, uncommitted, txn, next_id, now, last, run, proc, llm, scrape, calc,
                   eleduck, reclassify>>

V2EXPage ==
    /\ v2ex.pc = "page"
    /\ v2ex.token
    /\ \E results \in Pages(MaxTopics - v2ex.served) :
        /\ v2ex' = page_ok(v2ex, results)
        /\ UNCHANGED <<jobs, uncommitted, txn, next_id, now, last, run, proc, llm, scrape, calc,
                       eleduck, reclassify>>

InitV2EX ==
    /\ jobs = <<>>
    /\ uncommitted = [c \in Clients |-> <<>>]
    /\ txn = [c \in Clients |-> "idle"]
    /\ next_id = 1
    /\ now = Now0
    /\ last = NoCall
    /\ run = IdleRun
    /\ proc = IdleProc
    /\ llm = IdleLlm
    /\ scrape = IdleScrape
    /\ calc = IdleCalc
    /\ eleduck = IdleEleduck
    /\ v2ex \in {[IdleV2EX EXCEPT !.pc = "page", !.token = t] : t \in BOOLEAN}
    /\ reclassify = IdleReclassify

NextV2EX == V2EXNoToken \/ V2EXPageError \/ V2EXPageNotObject \/ V2EXPageFailure \/ V2EXPage

SpecV2EX == InitV2EX /\ [][NextV2EX]_vars

(***************************************************************************)
(* reclassify_jobs.py: reclassify_all.  The column category holds what a   *)
(* writer gave it: insert_job writes the scraper's string, reclassify_all  *)
(* writes the classifier's list.  One step is one row of the loop.         *)
(***************************************************************************)
\* a stored category: a str or a list of str
StrCategory(s) == [type |-> "str", s |-> s, l |-> <<>>]
ListCategory(l) == [type |-> "list", s |-> "", l |-> l]

\* the most rows of table jobs and the most runs of reclassify_all
MaxRows == 2
MaxRuns == 2

\* the categories the rows start with: written by insert_job from a scraper's job, or
\* by an earlier run of reclassify_all
StoredCategories ==
    {StrCategory("backend"), StrCategory("unknown"), ListCategory(<<"other">>),
     ListCategory(<<"backend">>), ListCategory(<<"frontend", "backend">>)}
StoredTitles == {"DevOps Engineer"}

\* table jobs: row i has id i
Tables ==
    UNION {[1..n -> [title : StoredTitles, category : StoredCategories]] : n \in 0..MaxRows}

\* what classify_category can answer for a stored title, whatever the model service does
classifications ==
    [title \in StoredTitles, backend \in Backends |->
       {classify(title, backend, http) : http \in HttpOutcomes}]

\* what the database does with the UPDATE and the commit of one row
UpdateOutcomes == {"ok", "execute_raises", "commit_raises"}

\* the two `continue` tests of the default mode
skips(category) ==
    \/ category.type = "list" /\ Len(category.l) > 1
    \/ category.type = "list" /\ Len(category.l) = 1 /\ category.l[1] \notin {"unknown", "other"}

\* the loop moves to the next row, or ends after the last one
next_row(r) ==
    IF r.i = Len(r.rows) THEN [r EXCEPT !.pc = "done", !.i = 0] ELSE [r EXCEPT !.i = r.i + 1]

\* the row is skipped
skip_row(r) == next_row([r EXCEPT !.skipped = r.skipped + 1])

\* classify_category answered new_category; the UPDATE and the commit follow, and
\* conn.rollback() when one of them raises.  log is not a variable of the program: it
\* holds, for every committed update, the run, the id and the category the run had read.
update_row(r, new_category, outcome) ==
    IF outcome = "ok"
    THEN next_row([r EXCEPT !.table[r.i].category = ListCategory(new_category),
                            !.updated = r.updated + 1,
                            !.log = Append(r.log, [run |-> r.run, id |-> r.i,
                                                   force_all |-> r.force_all,
                                                   category |-> r.rows[r.i].category])])
    ELSE next_row([r EXCEPT !.errors = Append(r.errors, [run |-> r.run, id |-> r.i])])

\* SELECT id, title, description, category FROM jobs ORDER BY id
ReclassifyFetch ==
    /\ reclassify.pc = "fetch"
    /\ reclassify' = IF reclassify.table = <<>>
                     THEN [reclassify EXCEPT !.pc = "done", !.rows = <<>>]
                     ELSE [reclassify EXCEPT !.pc = "loop", !.rows = reclassify.table, !.i = 1]
    /\ UNCHANGED <<jobs, uncommitted, txn, next_id, now, last, run, proc, llm, scrape, calc,
                   eleduck, v2ex>>

ReclassifySkip ==
    /\ reclassify.pc = "loop"
    /\ ~reclassify.force_all
    /\ skips(reclassify.rows[reclassify.i].category)
    /\ reclassify' = skip_row(reclassify)
    /\ UNCHANGED <<jobs, uncommitted, txn, next_id, now, last, run, proc, llm, scrape, calc,
                   eleduck, v2ex>>

ReclassifyUpdate ==
    /\ reclassify.pc = "loop"
    /\ reclassify.force_all \/ ~skips(reclassify.rows[reclassify.i].category)
    /\ \E new_category \in classifications[reclassify.rows[reclassify.i].title, reclassify.backend],
          outcome \in UpdateOutcomes :
        /\ reclassify' = update_row(reclassify, new_category, outcome)
        /\ UNCHANGED <<jobs, uncommitted, txn, next_id, now, last, run, proc, llm, scrape, calc,
                       eleduck, v2ex>>

\* reclassify_all is started again
ReclassifyAgain ==
    /\ reclassify.pc = "done"
    /\ reclassify.run < MaxRuns
    /\ \E force_all \in BOOLEAN :
        /\ reclassify' = [reclassify EXCEPT !.pc = "fetch", !.run = reclassify.run + 1,
                                            !.force_all = force_all, !.rows = <<>>,
                                            !.updated = 0, !.skipped = 0]
        /\ UNCHANGED <<jobs, uncommitted, txn, next_id, now, last, run, proc, llm, scrape, calc,
                       eleduck, v2ex>>

InitReclassify ==
    /\ jobs = <<>>
    /\ uncommitted = [c \in Clients |-> <<>>]
    /\ txn = [c \in Clients |-> "idle"]
    /\ next_id = 1
    /\ now = Now0
    /\ last = NoCall
    /\ run = IdleRun
    /\ proc = IdleProc
    /\ llm = IdleLlm
    /\ scrape = IdleScrape
    /\ calc = IdleCalc
    /\ eleduck = IdleEleduck
    /\ v2ex = IdleV2EX
    /\ reclassify \in {[IdleReclassify EXCEPT !.pc = "fetch", !.run = 1, !.table = t,
                                             !.backend = b, !.force_all = f] :
                         t \in Tables, b \in Backends, f \in BOOLEAN}

NextReclassify == ReclassifyFetch \/ ReclassifySkip \/ ReclassifyUpdate \/ ReclassifyAgain

SpecReclassify == InitReclassify /\ [][NextReclassify]_vars

\* C16 as claimed: the category a scraper's extractor gives a job is one of the
\* 14 taxonomy keys; when no rule matches it is "other".
C16_CategoryInTaxonomy ==
    (calc.op \in {"_extract_category", "_map_category"}) =>
        \E i \in 1..Len(CATEGORY_KEYS) : CATEGORY_KEYS[i] = calc.result

\* C20: _is_dev_job is false for every title containing an exclusion keyword,
\* whatever job-indicator keywords title or description contain, false for every
\* title with the first-person marker and without the hiring marker, and true
\* only if a job-indicator keyword occurs in the title or in the description.
C20_RuleFilter ==
    (calc.op = "_is_dev_job") =>
        LET title       == chars[calc.title]
            description == chars[calc.description]
        IN  /\ (\E i \in 1..Len(exclude_keywords) :
                   contains(chars[exclude_keywords[i]], title)) => calc.result = FALSE
            /\ (contains(<<"u6211">>, title) /\ ~contains(<<"u62db", "u8058">>, title))
                  => calc.result = FALSE
            /\ calc.result = TRUE =>
                  \E i \in 1..Len(dev_keywords) :
                     \/ contains(chars[dev_keywords[i]], lower(title))
                     \/ contains(chars[dev_keywords[i]], lower(description))

\* a title with an exclusion keyword next to a job-indicator keyword was rejected
C20_Witness ==
    /\ calc.op = "_is_dev_job"
    /\ calc.result = FALSE
    /\ contains(chars["u6c42u804c"], chars[calc.title])
    /\ contains(chars["java"], lower(chars[calc.title]))
    /\ ~years_of_experience(chars[calc.title])

\* the text names a timezone: PST, EST, CST, Pacific time or Eastern time, as a word
names_timezone(text) ==
    re_search(<<Bd, Alt(<<<<Lit("pst")>>, <<Lit("est")>>, <<Lit("cst")>>,
                          <<Lit("pacific"), Ws1, Lit("time")>>,
                          <<Lit("eastern"), Ws1, Lit("time")>>>>), Bd>>, lower(text))

\* the text holds a requirement qualifier
has_qualifier(text) ==
    any_in(<<"required", "u65f6u533a", "u5de5u4f5cu65f6u95f4">>, lower(text))

\* C17: a region extractor that is given a text naming a timezone, with no
\* requirement qualifier and no numeric UTC/GMT offset in it, does not
\* answer a UTC+N or UTC-N region
C17_NamedTimezoneNeedsQualifier ==
    (/\ calc.op \in {"V2EX._extract_region", "RemoteOK._extract_region"}
     /\ names_timezone(chars[calc.text])
     /\ ~has_qualifier(chars[calc.text])
     /\ tz_offset(lower(chars[calc.text]), <<>>) = <<>>)
    => ~has_at(chars["UTC"], calc.result, 1)

\* the calls of the history about the post at `id`, before position k
Before(k, op, id, result) ==
    \E j \in 1..(k - 1) : eleduck.calls[j] = [op |-> op, post |-> id, result |-> result]

\* C15: in the Eleduck pipeline a record is appended for a post only after
\* is_job_posting answered true for it, is_job_posting is called for a post
\* only after _is_dev_job answered true for it, and a post _is_dev_job
\* rejected gets no call of is_job_posting.
C15_TwoStageAdmission ==
    /\ \A k \in 1..Len(eleduck.calls) :
          LET c == eleduck.calls[k]
          IN  /\ c.op = "append" => Before(k, "is_job_posting", c.post, TRUE)
              /\ c.op = "is_job_posting" => Before(k, "_is_dev_job", c.post, TRUE)
              /\ (c.op = "_is_dev_job" /\ c.result = FALSE) =>
                    \A j \in 1..Len(eleduck.calls) :
                       ~(eleduck.calls[j].op = "is_job_posting" /\ eleduck.calls[j].post = c.post)
    /\ \A n \in 1..Len(eleduck.all_jobs) :
          \E k \in 1..Len(eleduck.calls) :
             eleduck.calls[k] = [op |-> "append", post |-> eleduck.all_jobs[n].source_id, result |-> TRUE]

\* the run is over: one post went through both stages and was appended,
\* one was stopped by stage 1 and one by stage 2
C15_Witness ==
    /\ eleduck.pc = "done"
    /\ Len(eleduck.all_jobs) = 1
    /\ \E k \in 1..Len(eleduck.calls) :
          eleduck.calls[k].op = "_is_dev_job" /\ eleduck.calls[k].result = FALSE
    /\ \E k \in 1..Len(eleduck.calls) :
          eleduck.calls[k].op = "is_job_posting" /\ eleduck.calls[k].result = FALSE

\* C18: when run_with_database has gone through the list, the number its
\* summary gives as skipped duplicates is the number of calls of insert_job
\* that returned None; the calls that raised are in neither count.
C18_SummaryCountsDuplicates ==
    (run.phase = "done") =>
        /\ run.skipped = run.rejected
        /\ run.inserted + run.rejected + run.errored = run.n

\* C19: the row insert_job has just created holds a date_posted that is a
\* timestamp; it is the time of the call when the posting's date_posted is
\* None or a string that is not an ISO date.
C19_DatePostedDefined ==
    (last.op = "insert_job" /\ last.reason = "inserted") =>
        \A i \in 1..Len(jobs) :
           jobs[i].id = last.result =>
              /\ jobs[i].date_posted # None
              /\ (last.job.date_posted.type # "str"
                   \/ last.job.date_posted.value \notin DOMAIN iso_days)
                     => jobs[i].date_posted = last.at

\* C21 as claimed: classify_category returns between 1 and 3 category keys, for
\* every title and every model response.
C21_OneToThreeKeys ==
    (llm.op = "classify_category") => Len(llm.categories) \in 1..3

\* C23: in the list classify_category returns, fullstack, testing, ai and
\* blockchain occur only if the lower-cased title holds one of the keywords
\* that category requires.
C23_RequiredKeyword ==
    (llm.op = "classify_category") =>
        LET t == lower(chars[llm.title])
        IN  /\ has(llm.categories, "fullstack") => any_in(fullstack_kw, t)
            /\ has(llm.categories, "testing") => any_in(testing_kw, t)
            /\ has(llm.categories, "ai") => any_in(ai_kw, t)
            /\ has(llm.categories, "blockchain") => any_in(blockchain_kw, t)

\* the model answered fullstack and ai for a title with no keyword of either,
\* and neither is in the list returned
C23_Witness ==
    /\ llm.op = "classify_category"
    /\ llm.http.text = "Fullstack, AI"
    /\ ~any_in(fullstack_kw, lower(chars[llm.title]))
    /\ ~any_in(ai_kw, lower(chars[llm.title]))
    /\ llm.categories # <<>>
    /\ ~has(llm.categories, "fullstack") /\ ~has(llm.categories, "ai")

\* C24: in the list classify_category returns, other occurs only as the sole
\* entry.
C24_OtherOnlyAlone ==
    (llm.op = "classify_category" /\ has(llm.categories, "other")) => Len(llm.categories) = 1

\* the model answered other next to two categories the title supports, and the
\* list returned holds the two without other
C24_Witness ==
    /\ llm.op = "classify_category"
    /\ llm.http.text = "testing,blockchain,other"
    /\ llm.categories = <<"testing", "blockchain">>

\* C25: every key of the list classify_category returns is one of the 14 keys
\* of CATEGORY_KEYS.
C25_KeysInTaxonomy ==
    (llm.op = "classify_category") =>
        \A i \in 1..Len(llm.categories) :
           \E j \in 1..Len(CATEGORY_KEYS) : CATEGORY_KEYS[j] = llm.categories[i]

\* the model answered two keys outside the taxonomy for a title with a mobile
\* keyword: the keys are gone, and the key the correction layer added is left
C25_Witness ==
    /\ llm.op = "classify_category"
    /\ llm.http.text = "foo,bar"
    /\ llm.categories = <<"mobile">>

\* C30 as claimed: the list classify_category returns holds no category key
\* twice.
C30_NoRepeatedKey ==
    (llm.op = "classify_category") =>
        \A i, j \in 1..Len(llm.categories) :
           llm.categories[i] = llm.categories[j] => i = j


\* the rule groups of the V2EX region extractor a lower-cased text matches, by rank:
\* 1 US, 2 EU, 3 CN, 4 APAC, 5 UTC/GMT offset with qualifier, 6 named timezone with qualifier
region_groups(t) ==
    {g \in 1..6 :
       CASE g = 1 -> any_search(us_patterns, t)
         [] g = 2 -> any_search(eu_patterns, t)
         [] g = 3 -> any_search(cn_patterns, t)
         [] g = 4 -> any_search(apac_patterns, t)
         [] g = 5 -> tz_offset(t, tz_qualifier) # <<>>
         [] g = 6 -> re_search(pst_pattern, t) \/ re_search(est_pattern, t)
                       \/ re_search(beijing_pattern, t)}

\* C26: the V2EX region extractor answers with the region of the first group, in the
\* order US, EU, CN, APAC, offset with qualifier, named timezone with qualifier, that the
\* text matches, and with the source default CN when the text matches no group
C26_RegionPriorityOrder ==
    (calc.op = "V2EX._extract_region") =>
        LET t    == lower(chars[calc.text])
            hits == region_groups(t)
        IN  IF hits = {} THEN calc.result = chars["CN"]
            ELSE LET g == CHOOSE g \in hits : \A h \in hits : g <= h
                 IN  CASE g = 1 -> calc.result = chars["US"]
                       [] g = 2 -> calc.result = chars["EU"]
                       [] g = 3 -> calc.result = chars["CN"]
                       [] g = 4 -> calc.result = chars["APAC"]
                       [] g = 5 -> calc.result = chars["UTC"] \o tz_offset(t, tz_qualifier)
                       [] g = 6 -> calc.result \in {chars["UTC-8"], chars["UTC-5"], chars["UTC+8"]}

\* a text whose EU pattern stands before its US pattern is classified US
C26_Witness ==
    /\ calc.op = "V2EX._extract_region"
    /\ calc.text = "EU only or US only"
    /\ region_groups(lower(chars[calc.text])) = {1, 2}
    /\ calc.result = chars["US"]


\* the rules of the V2EX keyword table with a term in the lower-cased text t
matching_rules(t) ==
    {i \in 1..Len(V2EX_keywords) : find_first_match_pos(t, V2EX_keywords[i]) # -1}

\* the ranks, in priority_categories, of the priority categories with a term in t
matching_priorities(t) ==
    {n \in 1..Len(priority_categories) :
       \E i \in matching_rules(t) : V2EX_keywords[i].category = priority_categories[n]}

\* the category is not a priority category and no rule matches t before its rule does
earliest_in_title(category, t) ==
    \E i \in matching_rules(t) :
        /\ V2EX_keywords[i].category = category
        /\ ~has(priority_categories, category)
        /\ \A m \in matching_rules(t) :
               find_first_match_pos(t, V2EX_keywords[i]) <= find_first_match_pos(t, V2EX_keywords[m])

RECURSIVE at_positions(_, _, _)
at_positions(s, keep, i) ==
    IF i > Len(s) THEN <<>>
    ELSE (IF i \in keep THEN <<s[i]>> ELSE <<>>) \o at_positions(s, keep, i + 1)

\* s without every entry whose source_id an earlier entry has
first_occurrences(s) ==
    at_positions(s, {i \in 1..Len(s) : \A j \in 1..(i - 1) : s[j].source_id # s[i].source_id}, 1)

\* C22: the list V2EXScraper.scrape returns is the sequence of the accepted topics in fetch
\* order (node, then page, then place on the page) without every later occurrence of a
\* source_id
C22_FetchOrderFirstOccurrences ==
    (v2ex.pc = "done") => v2ex.result = first_occurrences(v2ex.accepted)

\* C29, V2EX: no node gets more than 10 page requests, and the jobs collected from the
\* pages of a node are returned (up to the de-duplication) whatever page ended the node
C29_BoundedRequestsPartialResults ==
    /\ \A n \in 1..Len(NODES) : v2ex.requests[n] <= MAX_PAGES
    /\ (v2ex.pc = "done") =>
           \A i \in 1..Len(v2ex.accepted) :
               \E k \in 1..Len(v2ex.result) :
                   v2ex.result[k].source_id = v2ex.accepted[i].source_id


\* the stored category is one valid category other than unknown and other
valid_single(category) ==
    \/ category.type = "str" /\ has(CATEGORY_KEYS, category.s) /\ category.s # "other"
    \/ /\ category.type = "list" /\ Len(category.l) = 1
       /\ has(CATEGORY_KEYS, category.l[1]) /\ category.l[1] # "other"

\* C28: a run of reclassify_all(force_all=False) never updates a job whose stored
\* category is one valid category other than unknown/other, or a list of several
\* categories, so that a second run leaves the jobs a first run classified alone
C28_DefaultModeOnlyUnknownOther ==
    \A k \in 1..Len(reclassify.log) :
        ~reclassify.log[k].force_all =>
            /\ ~valid_single(reclassify.log[k].category)
            /\ ~(reclassify.log[k].category.type = "list" /\ Len(reclassify.log[k].category.l) > 1)

====
